---- MODULE Spec2Model ----
(***************************************************************************)
(* Keon SDK (TypeScript): the RFC 8785 canonicalization codec of           *)
(* packages/sdk/src/canonicalize.ts.                                       *)
(*                                                                         *)
(* JavaScript strings are sequences of UTF-16 code units, byte arrays are  *)
(* sequences of 0..255, and a JavaScript value is a record tagged by t.    *)
(* A call that can throw yields a completion record: Ok(v) or Throw(e).    *)
(***************************************************************************)
EXTENDS Integers, Sequences, FiniteSets

(***************************************************************************)
(* Bounds of the explored inputs.                                          *)
(***************************************************************************)
MaxStrLen == 2
MaxElems == 2
MaxMembers == 2
MaxDepth == 1

(***************************************************************************)
(* Completion records.                                                     *)
(***************************************************************************)
Ok(v) == [ok |-> TRUE, val |-> v, err |-> "none"]
Throw(e) == [ok |-> FALSE, val |-> <<>>, err |-> e]

\* Op applied to the value of e, which is computed once (a const binding).
Let(e, Op(_)) == CHOOSE r \in {Op(x) : x \in {e}} : TRUE

(***************************************************************************)
(* Sequence helpers.                                                       *)
(***************************************************************************)
RECURSIVE Flatten(_)
Flatten(ss) == IF ss = <<>> THEN <<>> ELSE Head(ss) \o Flatten(Tail(ss))

RECURSIVE Join(_, _)
\* Array.prototype.join: the parts separated by sep.
Join(parts, sep) ==
  IF parts = <<>> THEN <<>>
  ELSE IF Len(parts) = 1 THEN parts[1]
  ELSE parts[1] \o sep \o Join(Tail(parts), sep)

RECURSIVE Repeat(_, _)
Repeat(c, n) == IF n <= 0 THEN <<>> ELSE <<c>> \o Repeat(c, n - 1)

Range(f) == {f[i] : i \in DOMAIN f}

(***************************************************************************)
(* Code units the codec names.                                             *)
(***************************************************************************)
QUOTE == 34
BACKSLASH == 92
SLASH == 47
BS == 8
FF == 12
LF == 10
CR == 13
TAB == 9
SPACE == 32
COMMA == 44
COLON == 58
LBRACKET == 91
RBRACKET == 93
LBRACE == 123
RBRACE == 125
MINUS == 45
PLUS == 43
DOT == 46
ZERO == 48
LowerE == 101
UpperE == 69
LowerU == 117
CombiningAcute == 769

\* The text of a keyword literal.
NullText == <<110, 117, 108, 108>>
TrueText == <<116, 114, 117, 101>>
FalseText == <<102, 97, 108, 115, 101>>

(***************************************************************************)
(* String.prototype.normalize('NFC') on the code points of the model:      *)
(* canonical decomposition followed by canonical composition.  The pairs   *)
(* below are all the canonical compositions among the model's code points  *)
(* (A, a, e followed by U+0301).                                           *)
(***************************************************************************)
Compositions ==
  { <<65, CombiningAcute, 193>>,    \* A + U+0301 = U+00C1
    <<97, CombiningAcute, 225>>,    \* a + U+0301 = U+00E1
    <<101, CombiningAcute, 233>> }  \* e + U+0301 = U+00E9

Decompose1(c) ==
  IF \E t \in Compositions : t[3] = c
  THEN LET t == CHOOSE t \in Compositions : t[3] = c IN <<t[1], t[2]>>
  ELSE <<c>>

RECURSIVE Decompose(_)
Decompose(s) == IF s = <<>> THEN <<>> ELSE Decompose1(Head(s)) \o Decompose(Tail(s))

RECURSIVE Compose(_)
Compose(s) ==
  IF Len(s) < 2 THEN s
  ELSE IF \E t \in Compositions : t[1] = s[1] /\ t[2] = s[2]
       THEN LET t == CHOOSE t \in Compositions : t[1] = s[1] /\ t[2] = s[2]
            IN Compose(<<t[3]>> \o SubSeq(s, 3, Len(s)))
       ELSE <<s[1]>> \o Compose(Tail(s))

NFC(s) == Compose(Decompose(s))

(***************************************************************************)
(* Iteration of a string by code point (for ... of): a high surrogate      *)
(* followed by a low surrogate is one element.                             *)
(***************************************************************************)
IsHighSurrogate(c) == c >= 55296 /\ c <= 56319
IsLowSurrogate(c) == c >= 56320 /\ c <= 57343

RECURSIVE StringIterator(_)
StringIterator(s) ==
  IF s = <<>> THEN <<>>
  ELSE IF Len(s) >= 2 /\ IsHighSurrogate(s[1]) /\ IsLowSurrogate(s[2])
       THEN <<SubSeq(s, 1, 2)>> \o StringIterator(SubSeq(s, 3, Len(s)))
       ELSE <<SubSeq(s, 1, 1)>> \o StringIterator(Tail(s))

(***************************************************************************)
(* Number.prototype.toString(16) and String.prototype.padStart(4, '0').    *)
(***************************************************************************)
HexDigit(d) == IF d < 10 THEN ZERO + d ELSE 97 + (d - 10)

RECURSIVE ToString16(_)
ToString16(n) ==
  IF n < 16 THEN <<HexDigit(n)>> ELSE ToString16(n \div 16) \o <<HexDigit(n % 16)>>

PadStart(s, width, c) == Repeat(c, width - Len(s)) \o s

(***************************************************************************)
(* canonicalizeString: NFC, then escape code point by code point.          *)
(***************************************************************************)
\* The \u escape written with upper-case hexadecimal digits.
EscapeCharUpperHex(char) ==
  LET code == char[1]
      upper(h) == [i \in 1..Len(h) |-> IF h[i] >= 97 THEN h[i] - 32 ELSE h[i]]
  IN
  IF char = <<QUOTE>> THEN <<BACKSLASH, QUOTE>>
  ELSE IF char = <<BACKSLASH>> THEN <<BACKSLASH, BACKSLASH>>
  ELSE IF char = <<BS>> THEN <<BACKSLASH, 98>>
  ELSE IF char = <<FF>> THEN <<BACKSLASH, 102>>
  ELSE IF char = <<LF>> THEN <<BACKSLASH, 110>>
  ELSE IF char = <<CR>> THEN <<BACKSLASH, 114>>
  ELSE IF char = <<TAB>> THEN <<BACKSLASH, 116>>
  ELSE IF code < 32
    THEN <<BACKSLASH, LowerU>> \o PadStart(upper(ToString16(code)), 4, ZERO)
  ELSE char

EscapeChar(char) ==
  LET code == char[1] IN
  IF char = <<QUOTE>> THEN <<BACKSLASH, QUOTE>>
  ELSE IF char = <<BACKSLASH>> THEN <<BACKSLASH, BACKSLASH>>
  ELSE IF char = <<BS>> THEN <<BACKSLASH, 98>>
  ELSE IF char = <<FF>> THEN <<BACKSLASH, 102>>
  ELSE IF char = <<LF>> THEN <<BACKSLASH, 110>>
  ELSE IF char = <<CR>> THEN <<BACKSLASH, 114>>
  ELSE IF char = <<TAB>> THEN <<BACKSLASH, 116>>
  ELSE IF code < 32 THEN <<BACKSLASH, LowerU>> \o PadStart(ToString16(code), 4, ZERO)
  ELSE char

\* canonicalizeString walking the string as given, not normalized.
canonicalizeStringAsGiven(str) ==
  LET chars == StringIterator(str)
  IN <<QUOTE>> \o Flatten([i \in 1..Len(chars) |-> EscapeChar(chars[i])]) \o <<QUOTE>>

canonicalizeString(str) ==
  LET normalized == NFC(str)
      chars == StringIterator(normalized)
  IN <<QUOTE>> \o Flatten([i \in 1..Len(chars) |-> EscapeChar(chars[i])]) \o <<QUOTE>>

(***************************************************************************)
(* Numbers.  A JavaScript number is NaN, an infinity, a zero (with sign)   *)
(* or a finite non-zero double, held as the digits ds of its shortest      *)
(* round-trip decimal (no leading or trailing zero) and the position n of  *)
(* the decimal point: the value is 0.ds * 10^n, as in Number::toString.    *)
(***************************************************************************)
NumberValue(cls, neg, ds, n) ==
  [t |-> "number", cls |-> cls, neg |-> neg, ds |-> ds, n |-> n]
NaN == NumberValue("nan", FALSE, <<>>, 0)
PosInfinity == NumberValue("inf", FALSE, <<>>, 0)
NegInfinity == NumberValue("inf", TRUE, <<>>, 0)
PosZero == NumberValue("zero", FALSE, <<>>, 0)
NegZero == NumberValue("zero", TRUE, <<>>, 0)
Finite(neg, ds, n) == NumberValue("fin", neg, ds, n)

\* Number.MAX_SAFE_INTEGER = 2^53 - 1 = 9007199254740991.
MaxSafeIntegerDigits == <<9, 0, 0, 7, 1, 9, 9, 2, 5, 4, 7, 4, 0, 9, 9, 1>>

RECURSIVE FractionLeq(_, _)
\* 0.a <= 0.b for digit sequences a and b.
FractionLeq(a, b) ==
  IF a = <<>> THEN TRUE
  ELSE IF b = <<>> THEN \A i \in 1..Len(a) : a[i] = 0
  ELSE IF a[1] # b[1] THEN a[1] < b[1]
  ELSE FractionLeq(Tail(a), Tail(b))

\* |num| <= the integer whose decimal digits are limit.
MagnitudeLeq(num, limit) ==
  \/ num.cls = "zero"
  \/ /\ num.cls = "fin"
     /\ \/ num.n < Len(limit)
        \/ num.n = Len(limit) /\ FractionLeq(num.ds, limit)

NumberIsFinite(num) == num.cls \in {"zero", "fin"}
NumberIsInteger(num) ==
  num.cls = "zero" \/ (num.cls = "fin" /\ num.n >= Len(num.ds))
NumberIsSafeInteger(num) ==
  NumberIsInteger(num) /\ MagnitudeLeq(num, MaxSafeIntegerDigits)

RECURSIVE StripTrailingZeros(_)
StripTrailingZeros(ds) ==
  IF ds # <<>> /\ ds[Len(ds)] = 0 THEN StripTrailingZeros(SubSeq(ds, 1, Len(ds) - 1))
  ELSE ds

\* Math.trunc: the integral part, keeping the sign.
MathTrunc(num) ==
  IF num.cls # "fin" \/ num.n >= Len(num.ds) THEN num
  ELSE IF num.n <= 0 THEN NumberValue("zero", num.neg, <<>>, 0)
  ELSE Finite(num.neg, StripTrailingZeros(SubSeq(num.ds, 1, num.n)), num.n)

DigitChars(ds) == [i \in 1..Len(ds) |-> ZERO + ds[i]]

RECURSIVE NatToString(_)
NatToString(m) ==
  IF m < 10 THEN <<ZERO + m>> ELSE NatToString(m \div 10) \o <<ZERO + (m % 10)>>

\* A formatter that turns to exponent notation from 1e15 on.
NumberToStringEarlyExponent(num) ==
  IF num.cls = "zero" THEN <<ZERO>>
  ELSE
    LET k == Len(num.ds)
        n == num.n
        sign == IF num.neg THEN <<MINUS>> ELSE <<>>
        e == n - 1
        exponent == <<LowerE>> \o (IF e < 0 THEN <<MINUS>> ELSE <<PLUS>>)
                      \o NatToString(IF e < 0 THEN -e ELSE e)
    IN sign \o
       ( IF k <= n /\ n <= 15 THEN DigitChars(num.ds) \o Repeat(ZERO, n - k)
         ELSE IF 0 < n /\ n <= 15
           THEN DigitChars(SubSeq(num.ds, 1, n)) \o <<DOT>> \o DigitChars(SubSeq(num.ds, n + 1, k))
         ELSE IF -6 < n /\ n <= 0
           THEN <<ZERO, DOT>> \o Repeat(ZERO, -n) \o DigitChars(num.ds)
         ELSE IF k = 1 THEN DigitChars(num.ds) \o exponent
         ELSE DigitChars(SubSeq(num.ds, 1, 1)) \o <<DOT>> \o DigitChars(SubSeq(num.ds, 2, k))
                \o exponent )

\* Number::toString(x) of ECMA-262 (radix 10) for a finite x.
NumberToString(num) ==
  IF num.cls = "zero" THEN <<ZERO>>
  ELSE
    LET k == Len(num.ds)
        n == num.n
        sign == IF num.neg THEN <<MINUS>> ELSE <<>>
        e == n - 1
        exponent == <<LowerE>> \o (IF e < 0 THEN <<MINUS>> ELSE <<PLUS>>)
                      \o NatToString(IF e < 0 THEN -e ELSE e)
    IN sign \o
       ( IF k <= n /\ n <= 21 THEN DigitChars(num.ds) \o Repeat(ZERO, n - k)
         ELSE IF 0 < n /\ n <= 21
           THEN DigitChars(SubSeq(num.ds, 1, n)) \o <<DOT>> \o DigitChars(SubSeq(num.ds, n + 1, k))
         ELSE IF -6 < n /\ n <= 0
           THEN <<ZERO, DOT>> \o Repeat(ZERO, -n) \o DigitChars(num.ds)
         ELSE IF k = 1 THEN DigitChars(num.ds) \o exponent
         ELSE DigitChars(SubSeq(num.ds, 1, 1)) \o <<DOT>> \o DigitChars(SubSeq(num.ds, 2, k))
                \o exponent )

(***************************************************************************)
(* canonicalizeNumber.                                                     *)
(***************************************************************************)
canonicalizeNumber(num) ==
  IF ~NumberIsFinite(num) THEN Throw("NonFiniteNumber")
  ELSE IF num = NegZero THEN Ok(<<ZERO>>)
  ELSE IF NumberIsInteger(num) /\ NumberIsSafeInteger(num) THEN Ok(NumberToString(num))
  ELSE IF num = MathTrunc(num) /\ MagnitudeLeq(num, MaxSafeIntegerDigits)
    THEN Ok(NumberToString(MathTrunc(num)))
  ELSE Ok(NumberToString(num))

(***************************************************************************)
(* JavaScript values.  An array holds its items in index order; an object  *)
(* holds its own enumerable string-keyed properties as <<key, value>>      *)
(* pairs in the order Object.keys lists them, with pairwise distinct keys. *)
(***************************************************************************)
Null == [t |-> "null"]
Undefined == [t |-> "undefined"]
Boolean(b) == [t |-> "boolean", b |-> b]
String(s) == [t |-> "string", s |-> s]
Array(items) == [t |-> "array", items |-> items]
Object(members) == [t |-> "object", members |-> members]
Function == [t |-> "function"]
Symbol == [t |-> "symbol"]
BigInt == [t |-> "bigint"]
\* An index below the length of an array at which the array has no property
\* (a sparse array, as [1, , 2] or new Array(2)).
Hole == [t |-> "hole"]

\* The typeof operator.
TypeOf(value) ==
  IF value.t \in {"null", "array", "object"} THEN "object" ELSE value.t

ObjectKeys(obj) == [i \in 1..Len(obj.members) |-> obj.members[i][1]]

\* obj[key] for an own key.
Get(obj, key) ==
  LET i == CHOOSE i \in 1..Len(obj.members) : obj.members[i][1] = key
  IN obj.members[i][2]

(***************************************************************************)
(* The comparator handed to keys.sort: UTF-16 code unit by code unit, then *)
(* by length.  Negative, zero or positive.                                 *)
(***************************************************************************)
\* A comparator that ignores case before it compares code units, as a
\* locale-aware comparison does.
FoldCase(c) == IF c >= 65 /\ c <= 90 THEN c + 32 ELSE c

RECURSIVE compareFoldedFrom(_, _, _)
compareFoldedFrom(a, b, i) ==
  LET minLen == IF Len(a) < Len(b) THEN Len(a) ELSE Len(b) IN
  IF i > minLen THEN Len(a) - Len(b)
  ELSE IF FoldCase(a[i]) # FoldCase(b[i]) THEN FoldCase(a[i]) - FoldCase(b[i])
  ELSE IF a[i] # b[i] THEN b[i] - a[i]
  ELSE compareFoldedFrom(a, b, i + 1)

compareKeysFolded(a, b) == compareFoldedFrom(a, b, 1)

RECURSIVE compareFrom(_, _, _)
compareFrom(a, b, i) ==
  LET minLen == IF Len(a) < Len(b) THEN Len(a) ELSE Len(b) IN
  IF i > minLen THEN Len(a) - Len(b)
  ELSE IF a[i] # b[i] THEN a[i] - b[i]
  ELSE compareFrom(a, b, i + 1)

compareKeys(a, b) == compareFrom(a, b, 1)

RECURSIVE InsertSorted(_, _)
InsertSorted(sorted, x) ==
  IF sorted = <<>> THEN <<x>>
  ELSE IF compareKeys(x, Head(sorted)) < 0 THEN <<x>> \o sorted
  ELSE <<Head(sorted)>> \o InsertSorted(Tail(sorted), x)

RECURSIVE SortKeys(_)
\* Array.prototype.sort with compareKeys: keys the comparator calls equal are
\* the same string, so the sorted array does not depend on the algorithm.
SortKeys(keys) ==
  IF keys = <<>> THEN <<>>
  ELSE InsertSorted(SortKeys(SubSeq(keys, 1, Len(keys) - 1)), keys[Len(keys)])

\* The last original key whose NFC form is key.
FindLastOriginalKey(obj, key) ==
  LET ks == ObjectKeys(obj)
      i == CHOOSE i \in 1..Len(ks) :
             /\ NFC(ks[i]) = key
             /\ \A j \in (i + 1)..Len(ks) : NFC(ks[j]) # key
  IN ks[i]

\* Array.prototype.find over Object.keys(obj): the first original key whose
\* NFC form is key.
FindOriginalKey(obj, key) ==
  LET ks == ObjectKeys(obj)
      i == CHOOSE i \in 1..Len(ks) :
             /\ NFC(ks[i]) = key
             /\ \A j \in 1..(i - 1) : NFC(ks[j]) # key
  IN ks[i]

(***************************************************************************)
(* canonicalizeValue, canonicalizeArray, canonicalizeObject.  An exception *)
(* thrown while an element or member is rendered leaves through every      *)
(* enclosing call.                                                         *)
(***************************************************************************)
\* Array.prototype.map over completions: the first exception thrown leaves
\* the map; otherwise the array of the values.
RECURSIVE MapFrom(_, _, _, _)
MapFrom(Op(_), items, i, acc) ==
  IF i > Len(items) THEN Ok(acc)
  ELSE Let(Op(items[i]), LAMBDA r :
         IF ~r.ok THEN r ELSE MapFrom(Op, items, i + 1, Append(acc, r.val)))

Map(Op(_), items) == MapFrom(Op, items, 1, <<>>)

RECURSIVE canonicalizeValue(_)
RECURSIVE canonicalizeArray(_)
RECURSIVE canonicalizeObject(_)

canonicalizeValue(value) ==
  IF value = Null THEN Ok(NullText)
  ELSE IF value = Undefined THEN Ok(NullText)
  ELSE
    LET type == TypeOf(value) IN
    IF type = "boolean" THEN Ok(IF value.b THEN TrueText ELSE FalseText)
    ELSE IF type = "number" THEN canonicalizeNumber(value)
    ELSE IF type = "string" THEN Ok(canonicalizeString(value.s))
    ELSE IF type = "object"
      THEN IF value.t = "array" THEN canonicalizeArray(value)
           ELSE canonicalizeObject(value)
    ELSE Throw("UnsupportedType")

\* Array.prototype.map does not call the callback for an index the array has
\* no property at and leaves the index empty in its result; join writes the
\* empty string for it.
canonicalizeArray(arr) ==
  LET element(x) == IF x = Hole THEN Ok(<<>>) ELSE canonicalizeValue(x) IN
  Let(Map(element, arr.items), LAMBDA elements :
    IF ~elements.ok THEN elements
    ELSE Ok(<<LBRACKET>> \o Join(elements.val, <<COMMA>>) \o <<RBRACKET>>))

canonicalizeObject(obj) ==
  LET originalKeys == ObjectKeys(obj)
      keys == SortKeys([i \in 1..Len(originalKeys) |-> NFC(originalKeys[i])])
      pair(key) ==
        LET originalKey == FindOriginalKey(obj, key) IN
        Let(canonicalizeValue(Get(obj, originalKey)), LAMBDA rendered :
          IF ~rendered.ok THEN rendered
          ELSE Ok(canonicalizeString(key) \o <<COLON>> \o rendered.val))
  IN Let(Map(pair, keys), LAMBDA pairs :
       IF ~pairs.ok THEN pairs
       ELSE Ok(<<LBRACE>> \o Join(pairs.val, <<COMMA>>) \o <<RBRACE>>))

canonicalizeToString(value) == canonicalizeValue(value)

(***************************************************************************)
(* new TextEncoder().encode(str): UTF-8 of the code points of str, a lone  *)
(* surrogate encoded as U+FFFD.                                            *)
(***************************************************************************)
ReplacementChar == 65533

Utf8Bytes(cp) ==
  IF cp < 128 THEN <<cp>>
  ELSE IF cp < 2048 THEN <<192 + (cp \div 64), 128 + (cp % 64)>>
  ELSE IF cp < 65536
    THEN <<224 + (cp \div 4096), 128 + ((cp \div 64) % 64), 128 + (cp % 64)>>
  ELSE <<240 + (cp \div 262144), 128 + ((cp \div 4096) % 64),
         128 + ((cp \div 64) % 64), 128 + (cp % 64)>>

CodePointOf(char) ==
  IF Len(char) = 2 THEN 65536 + (char[1] - 55296) * 1024 + (char[2] - 56320)
  ELSE IF IsHighSurrogate(char[1]) \/ IsLowSurrogate(char[1]) THEN ReplacementChar
  ELSE char[1]

TextEncode(str) ==
  LET chars == StringIterator(str)
  IN Flatten([i \in 1..Len(chars) |-> Utf8Bytes(CodePointOf(chars[i]))])

(***************************************************************************)
(* new TextDecoder().decode(bytes): the UTF-8 decoder of the Encoding      *)
(* Standard, not fatal (a malformed sequence decodes to U+FFFD), with a    *)
(* leading byte order mark dropped.                                        *)
(***************************************************************************)
CodeUnitsOf(cp) ==
  IF cp < 65536 THEN <<cp>>
  ELSE <<55296 + ((cp - 65536) \div 1024), 56320 + ((cp - 65536) % 1024)>>

RECURSIVE Utf8Decode(_, _)
RECURSIVE Utf8Continue(_, _, _, _, _, _)

\* cp is the code point so far, need the continuation bytes still to come,
\* lower..upper the range the next one must lie in.
Utf8Continue(bytes, i, cp, need, lower, upper) ==
  IF need = 0 THEN CodeUnitsOf(cp) \o Utf8Decode(bytes, i)
  ELSE IF i > Len(bytes) THEN <<ReplacementChar>>
  ELSE IF bytes[i] < lower \/ bytes[i] > upper
    THEN <<ReplacementChar>> \o Utf8Decode(bytes, i)
  ELSE Utf8Continue(bytes, i + 1, cp * 64 + (bytes[i] % 64), need - 1, 128, 191)

Utf8Decode(bytes, i) ==
  IF i > Len(bytes) THEN <<>>
  ELSE
    LET b == bytes[i] IN
    IF b <= 127 THEN <<b>> \o Utf8Decode(bytes, i + 1)
    ELSE IF b >= 194 /\ b <= 223 THEN Utf8Continue(bytes, i + 1, b % 32, 1, 128, 191)
    ELSE IF b >= 224 /\ b <= 239
      THEN Utf8Continue(bytes, i + 1, b % 16, 2,
                        IF b = 224 THEN 160 ELSE 128, IF b = 237 THEN 159 ELSE 191)
    ELSE IF b >= 240 /\ b <= 244
      THEN Utf8Continue(bytes, i + 1, b % 8, 3,
                        IF b = 240 THEN 144 ELSE 128, IF b = 244 THEN 143 ELSE 191)
    ELSE <<ReplacementChar>> \o Utf8Decode(bytes, i + 1)

ByteOrderMark == 65279

TextDecode(bytes) ==
  LET str == Utf8Decode(bytes, 1)
  IN IF str # <<>> /\ str[1] = ByteOrderMark THEN Tail(str) ELSE str

(***************************************************************************)
(* JSON.parse(text) of ECMA-262.  A parser step yields                     *)
(* [ok, val, next]: the value read and the index after it, or ok = FALSE   *)
(* for a SyntaxError.                                                      *)
(***************************************************************************)
Parsed(v, next) == [ok |-> TRUE, val |-> v, next |-> next]
SyntaxError == [ok |-> FALSE, val |-> Null, next |-> 0]

IsJsonWhitespace(c) == c \in {SPACE, TAB, LF, CR}
IsDigit(c) == c >= ZERO /\ c <= ZERO + 9
IsHexDigit(c) == IsDigit(c) \/ (c >= 97 /\ c <= 102) \/ (c >= 65 /\ c <= 70)
HexValue(c) == IF IsDigit(c) THEN c - ZERO ELSE IF c >= 97 THEN c - 87 ELSE c - 55

At(text, i) == IF i >= 1 /\ i <= Len(text) THEN text[i] ELSE -1

RECURSIVE SkipWhitespace(_, _)
SkipWhitespace(text, i) ==
  IF IsJsonWhitespace(At(text, i)) THEN SkipWhitespace(text, i + 1) ELSE i

StartsWith(text, i, word) ==
  /\ i + Len(word) - 1 <= Len(text)
  /\ \A j \in 1..Len(word) : text[i + j - 1] = word[j]

\* The character a single-character escape stands for, or -1.
SingleEscape(c) ==
  IF c = QUOTE \/ c = BACKSLASH \/ c = SLASH THEN c
  ELSE IF c = 98 THEN BS
  ELSE IF c = 102 THEN FF
  ELSE IF c = 110 THEN LF
  ELSE IF c = 114 THEN CR
  ELSE IF c = 116 THEN TAB
  ELSE -1

RECURSIVE ParseStringChars(_, _, _)
\* text[i] is the first character after the opening quote.
ParseStringChars(text, i, acc) ==
  LET c == At(text, i) IN
  IF c = -1 \/ c < 32 THEN SyntaxError
  ELSE IF c = QUOTE THEN Parsed(acc, i + 1)
  ELSE IF c = BACKSLASH
    THEN LET d == At(text, i + 1) IN
         IF d = LowerU
           THEN IF \A j \in 2..5 : IsHexDigit(At(text, i + j))
                THEN ParseStringChars(text, i + 6,
                       Append(acc, HexValue(text[i + 2]) * 4096 + HexValue(text[i + 3]) * 256
                                     + HexValue(text[i + 4]) * 16 + HexValue(text[i + 5])))
                ELSE SyntaxError
         ELSE IF SingleEscape(d) # -1
           THEN ParseStringChars(text, i + 2, Append(acc, SingleEscape(d)))
         ELSE SyntaxError
  ELSE ParseStringChars(text, i + 1, Append(acc, c))

RECURSIVE DigitRun(_, _)
\* The index after the digits that start at i.
DigitRun(text, i) == IF IsDigit(At(text, i)) THEN DigitRun(text, i + 1) ELSE i

DigitValues(text, from, to) == [j \in 1..(to - from) |-> text[from + j - 1] - ZERO]

RECURSIVE StripLeadingZeros(_)
StripLeadingZeros(ds) ==
  IF ds # <<>> /\ ds[1] = 0 THEN StripLeadingZeros(Tail(ds)) ELSE ds

RECURSIVE DigitsToNat(_)
DigitsToNat(ds) ==
  IF ds = <<>> THEN 0 ELSE DigitsToNat(SubSeq(ds, 1, Len(ds) - 1)) * 10 + ds[Len(ds)]

\* Number.MAX_VALUE = 1.7976931348623157e308; anything above rounds to an
\* infinity, anything under the least subnormal (about 4.9e-324) to a zero.
MaxValueDigits == <<1, 7, 9, 7, 6, 9, 3, 1, 3, 4, 8, 6, 2, 3, 1, 5, 7>>
MaxValuePoint == 309
MinValuePoint == -323

\* The double a decimal literal denotes: digits all = integer part followed
\* by fraction, point the length of the integer part plus the exponent.
\* Literals are read exactly: the inputs are shortest round-trip decimals.
StringToNumber(neg, all, point) ==
  LET lead == StripLeadingZeros(all)
      ds == StripTrailingZeros(lead)
      n == point - (Len(all) - Len(lead))
  IN IF ds = <<>> THEN NumberValue("zero", neg, <<>>, 0)
     ELSE IF n > MaxValuePoint \/ (n = MaxValuePoint /\ ~FractionLeq(ds, MaxValueDigits))
       THEN NumberValue("inf", neg, <<>>, 0)
     ELSE IF n < MinValuePoint THEN NumberValue("zero", neg, <<>>, 0)
     ELSE Finite(neg, ds, n)

\* JSON number: -? (0 | [1-9][0-9]*) (. [0-9]+)? ([eE] [+-]? [0-9]+)?
ParseNumber(text, i) ==
  LET neg == At(text, i) = MINUS
      intFrom == IF neg THEN i + 1 ELSE i
      intTo == IF At(text, intFrom) = ZERO THEN intFrom + 1 ELSE DigitRun(text, intFrom)
      hasFrac == At(text, intTo) = DOT
      fracTo == IF hasFrac THEN DigitRun(text, intTo + 1) ELSE intTo
      hasExp == At(text, fracTo) \in {LowerE, UpperE}
      signed == hasExp /\ At(text, fracTo + 1) \in {PLUS, MINUS}
      expFrom == IF signed THEN fracTo + 2 ELSE fracTo + 1
      expTo == IF hasExp THEN DigitRun(text, expFrom) ELSE fracTo
      exp == IF hasExp
             THEN (IF At(text, fracTo + 1) = MINUS THEN -1 ELSE 1)
                    * DigitsToNat(DigitValues(text, expFrom, expTo))
             ELSE 0
      all == DigitValues(text, intFrom, intTo)
               \o (IF hasFrac THEN DigitValues(text, intTo + 1, fracTo) ELSE <<>>)
  IN IF intTo = intFrom THEN SyntaxError
     ELSE IF hasFrac /\ fracTo = intTo + 1 THEN SyntaxError
     ELSE IF hasExp /\ expTo = expFrom THEN SyntaxError
     ELSE Parsed(StringToNumber(neg, all, (intTo - intFrom) + exp), expTo)

\* The JSON grammar: the text from index i read as a value, an object holding
\* its members as they are written.
RECURSIVE ReadValue(_, _)
RECURSIVE ReadElements(_, _, _)
RECURSIVE ReadMembers(_, _, _)

\* text[i] starts an element; acc holds the elements read so far.
ReadElements(text, i, acc) ==
  Let(ReadValue(text, i), LAMBDA element :
    IF ~element.ok THEN SyntaxError
    ELSE Let(SkipWhitespace(text, element.next), LAMBDA j :
           IF At(text, j) = COMMA
             THEN ReadElements(text, SkipWhitespace(text, j + 1),
                               Append(acc, element.val))
           ELSE IF At(text, j) = RBRACKET THEN Parsed(Array(Append(acc, element.val)), j + 1)
           ELSE SyntaxError))

\* text[i] starts a member name; acc holds the members read so far.
ReadMembers(text, i, acc) ==
  IF At(text, i) # QUOTE THEN SyntaxError
  ELSE
    Let(ParseStringChars(text, i + 1, <<>>), LAMBDA name :
      IF ~name.ok THEN SyntaxError
      ELSE Let(SkipWhitespace(text, name.next), LAMBDA c :
        IF At(text, c) # COLON THEN SyntaxError
        ELSE Let(ReadValue(text, SkipWhitespace(text, c + 1)), LAMBDA member :
          IF ~member.ok THEN SyntaxError
          ELSE Let(SkipWhitespace(text, member.next), LAMBDA j :
            Let(Append(acc, <<name.val, member.val>>), LAMBDA members :
              IF At(text, j) = COMMA
                THEN ReadMembers(text, SkipWhitespace(text, j + 1), members)
              ELSE IF At(text, j) = RBRACE THEN Parsed(Object(members), j + 1)
              ELSE SyntaxError)))))

ReadValue(text, start) ==
  Let(start, LAMBDA i :
    LET c == text[i] IN
    IF i > Len(text) THEN SyntaxError
    ELSE IF c = QUOTE
      THEN Let(ParseStringChars(text, i + 1, <<>>), LAMBDA str :
             IF str.ok THEN Parsed(String(str.val), str.next) ELSE SyntaxError)
    ELSE IF c = LBRACKET
      THEN Let(SkipWhitespace(text, i + 1), LAMBDA j :
             IF At(text, j) = RBRACKET THEN Parsed(Array(<<>>), j + 1)
             ELSE ReadElements(text, j, <<>>))
    ELSE IF c = LBRACE
      THEN Let(SkipWhitespace(text, i + 1), LAMBDA j :
             IF At(text, j) = RBRACE THEN Parsed(Object(<<>>), j + 1)
             ELSE ReadMembers(text, j, <<>>))
    ELSE IF c = MINUS \/ IsDigit(c) THEN ParseNumber(text, i)
    ELSE IF StartsWith(text, i, NullText) THEN Parsed(Null, i + Len(NullText))
    ELSE IF StartsWith(text, i, TrueText) THEN Parsed(Boolean(TRUE), i + Len(TrueText))
    ELSE IF StartsWith(text, i, FalseText) THEN Parsed(Boolean(FALSE), i + Len(FalseText))
    ELSE SyntaxError)

\* CreateDataProperty on the object under construction: a repeated key keeps
\* its place and takes the later value.
DefineMember(members, key, value) ==
  IF \E j \in 1..Len(members) : members[j][1] = key
  THEN [j \in 1..Len(members) |->
          IF members[j][1] = key THEN <<key, value>> ELSE members[j]]
  ELSE Append(members, <<key, value>>)

RECURSIVE DefineMembers(_, _, _)
DefineMembers(written, i, acc) ==
  IF i > Len(written) THEN acc
  ELSE DefineMembers(written, i + 1, DefineMember(acc, written[i][1], written[i][2]))

RECURSIVE Evaluate(_)
\* The value a JSON text denotes: the members of an object are defined in the
\* order written.
Evaluate(read) ==
  IF read.t = "array" THEN Array([i \in 1..Len(read.items) |-> Evaluate(read.items[i])])
  ELSE IF read.t = "object"
    THEN Object(DefineMembers(
           [i \in 1..Len(read.members) |->
              <<read.members[i][1], Evaluate(read.members[i][2])>>], 1, <<>>))
  ELSE read

JSONParse(text) ==
  Let(ReadValue(text, SkipWhitespace(text, 1)), LAMBDA read :
    IF read.ok /\ SkipWhitespace(text, read.next) = Len(text) + 1
    THEN Ok(Evaluate(read.val))
    ELSE Throw("SyntaxError"))

(***************************************************************************)
(* The codec entry points.                                                 *)
(***************************************************************************)
canonicalize(value) ==
  Let(canonicalizeToString(value), LAMBDA str :
    IF str.ok THEN Ok(TextEncode(str.val)) ELSE str)

canonicalizeBytes(jsonBytes) ==
  Let(JSONParse(TextDecode(jsonBytes)), LAMBDA parsed :
    IF parsed.ok THEN canonicalize(parsed.val) ELSE parsed)

RECURSIVE BytesMatchFrom(_, _, _)
\* The loop of validateIntegrity: the first index whose bytes differ stops
\* it with false; running off the end of jsonBytes yields true.
BytesMatchFrom(jsonBytes, canonical, i) ==
  IF i > Len(jsonBytes) THEN TRUE
  ELSE IF At(jsonBytes, i) # At(canonical, i) THEN FALSE
  ELSE BytesMatchFrom(jsonBytes, canonical, i + 1)

\* validateIntegrity comparing the lengths only.
validateIntegrityByLength(jsonBytes) ==
  Let(canonicalizeBytes(jsonBytes), LAMBDA canonical :
    IF ~canonical.ok THEN Ok(FALSE)
    ELSE Ok(Len(jsonBytes) = Len(canonical.val)))

\* validateIntegrity without its try/catch.
validateIntegrityUncaught(jsonBytes) ==
  Let(canonicalizeBytes(jsonBytes), LAMBDA canonical :
    IF ~canonical.ok THEN canonical
    ELSE IF Len(jsonBytes) # Len(canonical.val) THEN Ok(FALSE)
    ELSE Ok(BytesMatchFrom(jsonBytes, canonical.val, 1)))

\* An exception of canonicalizeBytes is caught and becomes false.
validateIntegrity(jsonBytes) ==
  Let(canonicalizeBytes(jsonBytes), LAMBDA canonical :
    IF ~canonical.ok THEN Ok(FALSE)
    ELSE IF Len(jsonBytes) # Len(canonical.val) THEN Ok(FALSE)
    ELSE Ok(BytesMatchFrom(jsonBytes, canonical.val, 1)))

(***************************************************************************)
(* The inputs explored.                                                    *)
(***************************************************************************)
RECURSIVE SeqsUpTo(_, _)
\* The sequences over S of length at most n.
SeqsUpTo(S, n) ==
  IF n = 0 THEN {<<>>}
  ELSE LET shorter == SeqsUpTo(S, n - 1)
       IN shorter \cup {Append(q, x) : q \in {r \in shorter : Len(r) = n - 1}, x \in S}

\* Code units: the seven named escapes, one more control (U+001F), space,
\* DEL, e, U+0301, U+00E9 and the surrogate pair of U+1F600.
Alphabet ==
  {QUOTE, BACKSLASH, BS, FF, LF, CR, TAB, 31, SPACE, 127, 101, CombiningAcute, 233,
   55357, 56832}

Strings == SeqsUpTo(Alphabet, MaxStrLen)

One == Finite(FALSE, <<1>>, 1)
Two == Finite(FALSE, <<2>>, 1)

Numbers ==
  { NaN, PosInfinity, NegInfinity, PosZero, NegZero, One, Two,
    Finite(FALSE, <<4, 2>>, 2),                         \* 42
    Finite(TRUE, <<7>>, 1),                             \* -7
    Finite(FALSE, <<1>>, 3),                            \* 100 (also written 100.0)
    Finite(FALSE, <<5>>, 0),                            \* 0.5
    Finite(FALSE, <<1>>, -2),                           \* 0.001
    Finite(TRUE, <<3, 1, 4, 1, 5, 9>>, 1),              \* -3.14159
    Finite(FALSE, <<1>>, -6),                           \* 1e-7
    Finite(FALSE, MaxSafeIntegerDigits, 16),            \* 2^53 - 1
    Finite(TRUE, MaxSafeIntegerDigits, 16),             \* -(2^53 - 1)
    Finite(FALSE, <<9, 0, 0, 7, 1, 9, 9, 2, 5, 4, 7, 4, 0, 9, 9, 2>>, 16),  \* 2^53
    Finite(FALSE, <<1>>, 21),                           \* 1e20
    Finite(FALSE, <<1>>, 22),                           \* 1e21
    Finite(FALSE, <<1, 5>>, 23) }                       \* 1.5e22

Scalars ==
  {Null, Undefined, Boolean(TRUE), Boolean(FALSE), Function, Symbol, BigInt}
    \cup Numbers \cup {String(s) : s \in Strings}

\* Object keys: A, a, ab, e U+0301 (decomposed) and U+00E9 (composed).  None
\* is an array index, so Object.keys lists them in insertion order.
KeyA == <<65>>
Keya == <<97>>
Keyab == <<97, 98>>
KeyDecomposed == <<101, CombiningAcute>>
KeyComposed == <<233>>
Keys == {KeyA, Keya, Keyab, KeyDecomposed, KeyComposed}

\* Values that render, and values that do not.
Leaves == {One, String(KeyDecomposed), Undefined, NaN, Function}

FlatArrays == {Array(items) : items \in SeqsUpTo({One, String(KeyDecomposed)}, MaxElems)}

\* Arrays with an index that holds nothing.
SparseArrays ==
  {Array(items) : items \in SeqsUpTo({One, Hole}, MaxElems)}
    \ {Array(items) : items \in SeqsUpTo({One}, MaxElems)}

\* The i-th member inserted holds the number i.
FlatObjects ==
  { Object([i \in 1..Len(ks) |-> <<ks[i], Finite(FALSE, <<i>>, 1)>>]) :
      ks \in {q \in SeqsUpTo(Keys, MaxMembers) :
                \A i, j \in 1..Len(q) : i # j => q[i] # q[j]} }

\* One more level of nesting around x: after an element, and as the member
\* that sorts first.
Wrapped(x) ==
  { Array(<<One, x>>),
    Object(<< <<Keyab, One>>, <<KeyA, x>> >>) }

RECURSIVE Nested(_)
\* The containers with exactly d wrappers around a leaf or flat container.
Nested(d) ==
  IF d = 0 THEN Leaves \cup FlatArrays \cup FlatObjects
  ELSE UNION {Wrapped(x) : x \in Nested(d - 1)}

\* Objects whose second key has the NFC form of the first, holding x.
Shadowed(x) ==
  { Object(<< <<KeyDecomposed, One>>, <<KeyComposed, x>> >>),
    Object(<< <<KeyComposed, One>>, <<KeyDecomposed, x>> >>) }

\* Keys outside the Basic Multilingual Plane: U+1F600 (D83D DE00) and U+FF5E.
AstralObjects ==
  { Object(<< <<(<<65374>>), One>>, <<(<<55357, 56832>>), Two>> >>),
    Object(<< <<(<<55357, 56832>>), One>>, <<(<<65374>>), Two>> >>) }

Inputs ==
  Scalars \cup UNION {Nested(d) : d \in 0..MaxDepth}
    \cup UNION {Shadowed(x) : x \in Scalars \ {String(q) : q \in Strings}}
    \cup AstralObjects \cup SparseArrays

(***************************************************************************)
(* Inputs derived from an earlier call: the same mapping with its members  *)
(* inserted in another order, and a canonical text serialized again with   *)
(* extra whitespace or with its members in another order.                  *)
(***************************************************************************)
Orderings(n) == {p \in [1..n -> 1..n] : \A i, j \in 1..n : i # j => p[i] # p[j]}

\* The sequences whose i-th element is drawn from alts[i].
Choices(alts) ==
  {f \in [1..Len(alts) -> UNION Range(alts)] : \A i \in 1..Len(alts) : f[i] \in alts[i]}

RECURSIVE Reorderings(_)
\* The values that hold the key/value pairs of v, at every depth, in any
\* insertion order.
Reorderings(v) ==
  IF v.t = "array"
    THEN {Array(items) :
            items \in Choices([i \in 1..Len(v.items) |-> Reorderings(v.items[i])])}
  ELSE IF v.t = "object"
    THEN LET n == Len(v.members) IN
         { Object([i \in 1..n |-> <<v.members[p[i]][1], vals[p[i]]>>]) :
             p \in Orderings(n),
             vals \in Choices([i \in 1..n |-> Reorderings(v.members[i][2])]) }
  ELSE {v}

\* The string itself, its canonical decomposition and its canonical
\* composition: strings that differ in normalization form only.
Forms(str) == {str, Decompose(str), Compose(Decompose(str))}

RECURSIVE Renormalizations(_)
\* The values that differ from v only in the normalization form of string
\* values and of object keys; the keys of an object in which two keys have
\* the same composed form are left as they are.
Renormalizations(v) ==
  IF v.t = "string" THEN {String(t) : t \in Forms(v.s)}
  ELSE IF v.t = "array"
    THEN {Array(items) :
            items \in Choices([i \in 1..Len(v.items) |-> Renormalizations(v.items[i])])}
  ELSE IF v.t = "object"
    THEN LET n == Len(v.members)
             composed(i) == Compose(Decompose(v.members[i][1]))
             distinct == \A i, j \in 1..n : i # j => composed(i) # composed(j)
             keyForms(i) == IF distinct THEN Forms(v.members[i][1]) ELSE {v.members[i][1]}
         IN { Object([i \in 1..n |-> <<ks[i], vals[i]>>]) :
                ks \in Choices([i \in 1..n |-> keyForms(i)]),
                vals \in Choices([i \in 1..n |-> Renormalizations(v.members[i][2])]) }
  ELSE {v}

RECURSIVE InsideString(_, _, _, _)
\* For each position 1..Len(text)+1, whether an insertion there falls inside
\* a string literal of the JSON text.
InsideString(text, i, inStr, escaped) ==
  IF i > Len(text) THEN <<inStr>>
  ELSE <<inStr>> \o
       ( IF ~inStr THEN InsideString(text, i + 1, text[i] = QUOTE, FALSE)
         ELSE IF escaped THEN InsideString(text, i + 1, TRUE, FALSE)
         ELSE IF text[i] = BACKSLASH THEN InsideString(text, i + 1, TRUE, TRUE)
         ELSE InsideString(text, i + 1, text[i] # QUOTE, FALSE) )

Structural == {LBRACKET, RBRACKET, LBRACE, RBRACE, COMMA, COLON}

\* The positions between two tokens of the JSON text, where JSON allows
\* whitespace.
TokenBoundaries(text) ==
  LET inside == InsideString(text, 1, FALSE, FALSE) IN
  { p \in 1..(Len(text) + 1) :
      /\ ~inside[p]
      /\ \/ p = 1
         \/ p = Len(text) + 1
         \/ text[p - 1] \in Structural
         \/ text[p] \in Structural }

InsertAt(text, p, c) == SubSeq(text, 1, p - 1) \o <<c>> \o SubSeq(text, p, Len(text))

WhitespaceVariants(text) ==
  {InsertAt(text, p, w) : p \in TokenBoundaries(text), w \in {SPACE, TAB, LF, CR}}

\* The canonical text of each member of a canonical object text, in order.
MemberTexts(obj) ==
  LET originalKeys == ObjectKeys(obj)
      keys == SortKeys([i \in 1..Len(originalKeys) |-> NFC(originalKeys[i])])
      body(key) ==
        LET text == canonicalize(Object(<< <<key, Get(obj, FindOriginalKey(obj, key))>> >>)).val
        IN SubSeq(text, 2, Len(text) - 1)
  IN [i \in 1..Len(keys) |-> body(keys[i])]

\* The canonical text of obj with its members written in another order.
KeyOrderVariants(obj, canonical) ==
  LET texts == MemberTexts(obj) IN
  { <<LBRACE>> \o Join([i \in 1..Len(texts) |-> texts[p[i]]], <<COMMA>>) \o <<RBRACE>> :
      p \in Orderings(Len(texts)) } \ {canonical}

\* Byte sequences handed to the codec as they are: the texts of the test
\* suite, documents that are not canonical, and bytes that are not JSON.
ByteVectors ==
  { <<123, 34, 65, 34, 58, 49, 44, 34, 97, 34, 58, 50, 125>>,    \* {"A":1,"a":2}
    <<123, 32, 34, 65, 34, 58, 32, 49, 44, 32, 34, 97, 34, 58, 32, 50, 32, 125>>,
                                                                  \* { "A": 1, "a": 2 }
    <<123, 34, 97, 34, 58, 50, 44, 34, 65, 34, 58, 49, 125>>,    \* {"a":2,"A":1}
    <<123, 34, 97, 34, 58, 49, 44, 34, 97, 34, 58, 50, 125>>,    \* {"a":1,"a":2}
    <<91, 51, 44, 49, 44, 50, 93>>,                               \* [3,1,2]
    <<49, 48, 48, 46, 48>>,                                       \* 100.0
    <<49, 48, 48>>,                                               \* 100
    <<49, 69, 50>>,                                               \* 1E2
    <<49, 46, 53, 101, 43, 51>>,                                  \* 1.5e+3
    <<45, 52, 50, 46, 48, 48>>,                                   \* -42.00
    <<45, 48>>,                                                   \* -0
    <<45, 48, 46, 48>>,                                           \* -0.0
    <<48, 46, 48, 48, 49>>,                                       \* 0.001
    <<48, 46, 48, 48, 48, 48, 48, 48, 49>>,                       \* 0.0000001
    <<49, 101, 50, 49>>,                                          \* 1e21
    <<49, 101, 52, 48, 48>>,                                      \* 1e400
    <<91, 45, 49, 101, 52, 48, 48, 93>>,                          \* [-1e400]
    <<45, 49, 101, 45, 52, 48, 48>>,                              \* -1e-400
    <<34, 92, 117, 48, 48, 54, 53, 92, 117, 48, 51, 48, 49, 34>>, \* "é"
    <<34, 101, 204, 129, 34>>,                                    \* "e U+0301" in UTF-8
    <<34, 195, 169, 34>>,                                         \* "U+00E9" in UTF-8
    <<34, 97, 92, 47, 98, 34>>,                                   \* "a\/b"
    <<34, 92, 117, 48, 48, 49, 70, 34>>,                          \* "\u001F"
    <<34, 240, 159, 152, 128, 34>>,                               \* "U+1F600" in UTF-8
    <<34, 255, 34>>,                                              \* a byte that is not UTF-8
    <<239, 187, 191, 49>>,                                        \* byte order mark, 1
    <<32, 110, 117, 108, 108, 32>>,                               \* null between spaces
    <<116, 114, 117, 101>>,                                       \* true
    <<>>,                                                         \* empty
    <<91>>,                                                       \* [
    <<116, 114, 117>>,                                            \* tru
    <<48, 49>>,                                                   \* 01
    <<49, 46>>,                                                   \* 1.
    <<123, 34, 97, 34, 58, 49, 44, 125>>,                         \* {"a":1,}
    <<34, 92, 120, 34>>,                                          \* "\x"
    <<34, 10, 34>>,                                               \* a raw newline in a string
    <<78, 97, 78>> }                                              \* NaN

(***************************************************************************)
(* Correlation identifiers (packages/contracts/src/types.ts).  Strings are *)
(* sequences of UTF-16 code units, as in the codec.                        *)
(***************************************************************************)
\* [0-9a-f]{8}-[0-9a-f]{4}-7[0-9a-f]{3}-[89ab][0-9a-f]{3}-[0-9a-f]{12} under
\* the i flag, matched against the whole of u.
MatchesUuidv7(u) ==
  /\ Len(u) = 36
  /\ \A i \in 1..36 :
       IF i \in {9, 14, 19, 24} THEN u[i] = MINUS
       ELSE IF i = 15 THEN u[i] = 55
       ELSE IF i = 20 THEN u[i] \in {56, 57, 97, 98, 65, 66}
       ELSE IsHexDigit(u[i])

\* String(value) of a value handed to RegExp.prototype.test or placed in a
\* template literal.
UndefinedText ==
  <<117, 110, 100, 101, 102, 105, 110, 101, 100>>
ToText(value) == IF value.t = "string" THEN value.s ELSE UndefinedText

\* CORRELATION_ID_PATTERN.test: ^t:[^|]+\|c:<uuidv7>$ under the i flag.  The
\* tenant part cannot hold '|', so the '|' matched is the first of the text.
isValidCorrelationId(correlationId) ==
  LET s == ToText(correlationId) IN
  /\ Len(s) >= 4
  /\ s[1] \in {116, 84}
  /\ s[2] = COLON
  /\ \E k \in 4..Len(s) :
       /\ s[k] = 124
       /\ \A j \in 3..(k - 1) : s[j] # 124
       /\ Len(s) >= k + 2
       /\ s[k + 1] \in {99, 67}
       /\ s[k + 2] = COLON
       /\ MatchesUuidv7(SubSeq(s, k + 3, Len(s)))

\* A validation that accepts every identifier.
validateNothing(correlationId) == Ok(Undefined)

validateCorrelationId(correlationId) ==
  IF ~isValidCorrelationId(correlationId) THEN Throw("Error") ELSE Ok(Undefined)

(***************************************************************************)
(* Errors (packages/sdk/src/errors.ts).                                    *)
(***************************************************************************)
KeonError(name, message, code, correlationId, details) ==
  [name |-> name, message |-> message, code |-> code,
   correlationId |-> correlationId, details |-> details]

\* "Invalid CorrelationId format. Expected: t:<TenantId>|c:<uuidv7>, got: "
InvalidCorrelationIdPrefix ==
  <<73, 110, 118, 97, 108, 105, 100, 32, 67, 111, 114, 114, 101, 108, 97,
    116, 105, 111, 110, 73, 100, 32, 102, 111, 114, 109, 97, 116, 46, 32,
    69, 120, 112, 101, 99, 116, 101, 100, 58, 32, 116, 58, 60, 84, 101,
    110, 97, 110, 116, 73, 100, 62, 124, 99, 58, 60, 117, 117, 105, 100,
    118, 55, 62, 44, 32, 103, 111, 116, 58, 32>>
InvalidCorrelationIdError(correlationId) ==
  KeonError("InvalidCorrelationIdError",
            InvalidCorrelationIdPrefix \o ToText(correlationId),
            "INVALID_CORRELATION_ID", Undefined, Undefined)

\* "Execute requires a valid DecisionReceiptId. Call decide() first."
MissingReceiptMessage ==
  <<69, 120, 101, 99, 117, 116, 101, 32, 114, 101, 113, 117, 105, 114, 101,
    115, 32, 97, 32, 118, 97, 108, 105, 100, 32, 68, 101, 99, 105, 115,
    105, 111, 110, 82, 101, 99, 101, 105, 112, 116, 73, 100, 46, 32, 67,
    97, 108, 108, 32, 100, 101, 99, 105, 100, 101, 40, 41, 32, 102, 105,
    114, 115, 116, 46>>
MissingReceiptError(correlationId) ==
  KeonError("MissingReceiptError", MissingReceiptMessage, "MISSING_RECEIPT",
            correlationId, Undefined)

\* "Execution denied: "
ExecutionDeniedPrefix ==
  <<69, 120, 101, 99, 117, 116, 105, 111, 110, 32, 100, 101, 110, 105, 101,
    100, 58, 32>>
\* The error without the reason and the details of the receipt.
ExecutionDeniedErrorBare(reason, correlationId, details) ==
  KeonError("ExecutionDeniedError", ExecutionDeniedPrefix, "EXECUTION_DENIED",
            correlationId, Undefined)

ExecutionDeniedError(reason, correlationId, details) ==
  KeonError("ExecutionDeniedError", ExecutionDeniedPrefix \o ToText(reason),
            "EXECUTION_DENIED", correlationId, details)

\* 'deny' and 'allow'
DenyText ==
  <<100, 101, 110, 121>>
AllowText ==
  <<97, 108, 108, 111, 119>>

(***************************************************************************)
(* KeonClient (the client module): generateUuidv7, generateCorrelationId,  *)
(* and decide and execute up to the request they hand to the gateway.      *)
(***************************************************************************)
\* String.prototype.slice(from, to) with 0 <= from <= to.
Slice(s, from, to) == SubSeq(s, from + 1, IF to < Len(s) THEN to ELSE Len(s))

\* generateUuidv7 writing the random digits of the fourth group as they are.
generateUuidv7Unmasked(timestamp, randomBytes) ==
  LET timestampHex ==
        PadStart([i \in 1..Len(timestamp) |-> HexDigit(timestamp[i])], 12, ZERO)
      randomHex ==
        Flatten([i \in 1..Len(randomBytes) |-> PadStart(ToString16(randomBytes[i]), 2, ZERO)])
  IN Join(<< Slice(timestampHex, 0, 8),
             Slice(timestampHex, 8, 12),
             <<55>> \o Slice(randomHex, 0, 3),
             Slice(randomHex, 3, 7),
             Slice(randomHex, 7, 19) >>, <<MINUS>>)

\* timestamp is Date.now() as its hexadecimal digits, most significant
\* first; randomBytes are the ten bytes of crypto.getRandomValues.
generateUuidv7(timestamp, randomBytes) ==
  LET timestampHex ==
        PadStart([i \in 1..Len(timestamp) |-> HexDigit(timestamp[i])], 12, ZERO)
      randomHex ==
        Flatten([i \in 1..Len(randomBytes) |-> PadStart(ToString16(randomBytes[i]), 2, ZERO)])
      pair == Slice(randomHex, 3, 5)
      parsed == HexValue(pair[1]) * 16 + HexValue(pair[2])
      variant == (parsed % 64) + 128
  IN Join(<< Slice(timestampHex, 0, 8),
             Slice(timestampHex, 8, 12),
             <<55>> \o Slice(randomHex, 0, 3),
             PadStart(ToString16(variant), 2, ZERO) \o Slice(randomHex, 5, 7),
             Slice(randomHex, 7, 19) >>, <<MINUS>>)

\* `t:${tenantId}|c:${uuid}`
generateCorrelationId(tenantId, uuid) ==
  String(<<116, COLON>> \o ToText(tenantId) \o <<124, 99, COLON>> \o uuid)

\* The operand of || that the expression a || b evaluates to: b when a is
\* undefined, null or the empty string.
Truthy(value) == value.t = "string" /\ value.s # <<>>
\* The right operand whenever it is truthy.
OrElseRight(a, b) == IF Truthy(b) THEN b ELSE a

OrElse(a, b) == IF Truthy(a) THEN a ELSE b

\* KeonClient.decide up to the call of gateway.decide: the request handed to
\* the gateway, or the error thrown before.  uuid is what generateUuidv7
\* returns when it is called.
decide(params, uuid) ==
  LET correlationId ==
        OrElse(params.correlationId, generateCorrelationId(params.tenantId, uuid))
  IN IF ~validateCorrelationId(correlationId).ok
       THEN Throw(InvalidCorrelationIdError(correlationId))
     ELSE Ok([correlationId |-> correlationId,
              tenantId |-> params.tenantId,
              actorId |-> params.actorId,
              action |-> params.action,
              resourceType |-> params.resourceType,
              resourceId |-> params.resourceId,
              context |-> params.context])

\* execute asking only for a receipt, not for its receiptId.
executeAnyReceipt(params) ==
  LET receipt == params.receipt IN
  IF receipt \in {Null, Undefined}
    THEN Throw(MissingReceiptError(params.correlationId))
  ELSE IF receipt.decision = String(DenyText)
    THEN Throw(ExecutionDeniedError(receipt.reason, receipt.correlationId,
                                    [appliedPolicies |-> receipt.appliedPolicies]))
  ELSE
    LET correlationId == OrElse(params.correlationId, receipt.correlationId) IN
    IF ~validateCorrelationId(correlationId).ok
      THEN Throw(InvalidCorrelationIdError(correlationId))
    ELSE Ok([decisionReceiptId |-> receipt.receiptId,
             correlationId |-> correlationId,
             action |-> params.action,
             parameters |-> params.parameters])

\* execute validating the correlationId before it looks at the decision.
executeValidatingFirst(params) ==
  LET receipt == params.receipt IN
  IF receipt \in {Null, Undefined} \/ ~Truthy(receipt.receiptId)
    THEN Throw(MissingReceiptError(params.correlationId))
  ELSE
    LET correlationId == OrElse(params.correlationId, receipt.correlationId) IN
    IF ~validateCorrelationId(correlationId).ok
      THEN Throw(InvalidCorrelationIdError(correlationId))
    ELSE IF receipt.decision = String(DenyText)
      THEN Throw(ExecutionDeniedError(receipt.reason, receipt.correlationId,
                                      [appliedPolicies |-> receipt.appliedPolicies]))
    ELSE Ok([decisionReceiptId |-> receipt.receiptId,
             correlationId |-> correlationId,
             action |-> params.action,
             parameters |-> params.parameters])

\* KeonClient.execute up to the call of gateway.execute.
execute(params) ==
  LET receipt == params.receipt IN
  IF receipt \in {Null, Undefined} \/ ~Truthy(receipt.receiptId)
    THEN Throw(MissingReceiptError(params.correlationId))
  ELSE IF receipt.decision = String(DenyText)
    THEN Throw(ExecutionDeniedError(receipt.reason, receipt.correlationId,
                                    [appliedPolicies |-> receipt.appliedPolicies]))
  ELSE
    LET correlationId == OrElse(params.correlationId, receipt.correlationId) IN
    IF ~validateCorrelationId(correlationId).ok
      THEN Throw(InvalidCorrelationIdError(correlationId))
    ELSE Ok([decisionReceiptId |-> receipt.receiptId,
             correlationId |-> correlationId,
             action |-> params.action,
             parameters |-> params.parameters])


(***************************************************************************)
(* The client's callers and its gateway.  A gateway is any RuntimeGateway: *)
(* what it resolves with is not validated, so a receipt may lack a field.  *)
(***************************************************************************)
\* 't:tenant-123|c:01932b3c-4d5e-7890-abcd-ef1234567890'
ValidCorrelationText ==
  <<116, 58, 116, 101, 110, 97, 110, 116, 45, 49, 50, 51, 124, 99, 58, 48,
    49, 57, 51, 50, 98, 51, 99, 45, 52, 100, 53, 101, 45, 55, 56, 57, 48,
    45, 97, 98, 99, 100, 45, 101, 102, 49, 50, 51, 52, 53, 54, 55, 56, 57,
    48>>
\* the same with a version 4 UUID
Uuidv4CorrelationText ==
  <<116, 58, 116, 101, 110, 97, 110, 116, 45, 49, 50, 51, 124, 99, 58, 48,
    49, 57, 51, 50, 98, 51, 99, 45, 52, 100, 53, 101, 45, 52, 56, 57, 48,
    45, 97, 98, 99, 100, 45, 101, 102, 49, 50, 51, 52, 53, 54, 55, 56, 57,
    48>>
\* 'invalid-format'
InvalidFormatText ==
  <<105, 110, 118, 97, 108, 105, 100, 45, 102, 111, 114, 109, 97, 116>>
\* 'tenant-123'
TenantText ==
  <<116, 101, 110, 97, 110, 116, 45, 49, 50, 51>>
\* 'Policy denies this action'
ReasonText ==
  <<80, 111, 108, 105, 99, 121, 32, 100, 101, 110, 105, 101, 115, 32, 116,
    104, 105, 115, 32, 97, 99, 116, 105, 111, 110>>

\* 'tenant-123', the empty string and 'a|b'.
TenantIds == {String(TenantText), String(<<>>), String(<<97, 124, 98>>)}

\* The correlationId of the caller: none, empty, valid, and two invalid.
CallerCorrelationIds ==
  { Undefined, String(<<>>), String(ValidCorrelationText),
    String(Uuidv4CorrelationText), String(InvalidFormatText) }

\* Date.now() as hexadecimal digits: 0 and a time of the year 2025.
Timestamps == {<<0>>, <<1, 9, 10, 3, 15, 2, 12, 4, 11, 5, 13>>}
RandomBytes ==
  { [i \in 1..10 |-> 0], [i \in 1..10 |-> 255],
    <<18, 52, 86, 120, 154, 188, 222, 240, 1, 35>> }
Uuids == {generateUuidv7(timestamp, randomBytes) :
            timestamp \in Timestamps, randomBytes \in RandomBytes}

\* 'user-456', 'test', 'resource', 'res-1'
DecideParams ==
  [ correlationId : CallerCorrelationIds,
    tenantId : TenantIds,
    actorId : {String(<<117, 115, 101, 114, 45, 52, 53, 54>>)},
    action : {String(<<116, 101, 115, 116>>)},
    resourceType : {String(<<114, 101, 115, 111, 117, 114, 99, 101>>)},
    resourceId : {String(<<114, 101, 115, 45, 49>>)},
    context : {Undefined} ]

\* No receipt, and receipts with each field present, empty or missing.
\* 'dr-allow', 'P-789'
Receipts ==
  {Null, Undefined} \cup
  [ receiptId : {Undefined, String(<<>>), String(<<100, 114, 45, 97, 108, 108, 111, 119>>)},
    decision : {String(AllowText), String(DenyText), Undefined},
    correlationId : {String(ValidCorrelationText), String(InvalidFormatText)},
    reason : {String(ReasonText)},
    appliedPolicies : {<<>>, <<String(<<80, 45, 55, 56, 57>>)>>} ]

ExecuteParams ==
  [ receipt : Receipts,
    action : {String(<<116, 101, 115, 116>>)},
    parameters : {Object(<<>>)},
    correlationId : CallerCorrelationIds ]

DecideAndExecuteParams ==
  [ correlationId : CallerCorrelationIds,
    tenantId : TenantIds,
    actorId : {String(<<117, 115, 101, 114, 45, 52, 53, 54>>)},
    action : {String(<<116, 101, 115, 116>>)},
    resourceType : {String(<<114, 101, 115, 111, 117, 114, 99, 101>>)},
    resourceId : {String(<<114, 101, 115, 45, 49>>)},
    parameters : {Object(<<>>)},
    context : {Undefined} ]

\* 'gateway failure'
GatewayFailure ==
  KeonError("NetworkError", <<103, 97, 116, 101, 119, 97, 121, 32, 102, 97, 105, 108, 117, 114, 101>>, "NETWORK_ERROR",
            Undefined, Undefined)

\* What gateway.decide settles with: a rejection, or a response whose data
\* is a receipt.
DecideResponses ==
  {Throw(GatewayFailure)} \cup {Ok([success |-> TRUE, data |-> receipt]) : receipt \in Receipts}

\* What gateway.execute settles with.  'ex-test', 'success'
ExecuteResponses ==
  { Throw(GatewayFailure),
    Ok([success |-> TRUE,
        data |-> [executionId |-> String(<<101, 120, 45, 116, 101, 115, 116>>), status |-> String(<<115, 117, 99, 99, 101, 115, 115>>)]]) }

(***************************************************************************)
(* State of a client call: the method called and its parameters, where the *)
(* call stands (pc: "idle", awaiting gateway.decide, awaiting              *)
(* gateway.execute, or "done"), the requests handed to the gateway so far  *)
(* (sent), the receipt gateway.decide resolved with, and how the call      *)
(* settled (outcome).                                                      *)
(***************************************************************************)
VARIABLES pc, method, params, sent, receipt, outcome

clientVars == <<pc, method, params, sent, receipt, outcome>>

\* No call of the client has been made.
ClientInit ==
  /\ pc = "idle"
  /\ method = "none"
  /\ params = Null
  /\ sent = <<>>
  /\ receipt = Undefined
  /\ outcome = Ok(Undefined)

(***************************************************************************)
(* RetryPolicy (retry.ts) and HttpRuntimeGateway (http-gateway.ts).        *)
(***************************************************************************)
\* RetryPolicy.default()
RetryPolicyDefault ==
  [ maxAttempts |-> 3,
    initialDelayMs |-> 100,
    maxDelayMs |-> 1000,
    backoffMultiplier |-> 2,
    retryableStatusCodes |-> <<408, 429, 500, 502, 503, 504>> ]

\* RetryPolicy.none()
RetryPolicyNone ==
  [ maxAttempts |-> 1,
    initialDelayMs |-> 0,
    maxDelayMs |-> 0,
    backoffMultiplier |-> 1,
    retryableStatusCodes |-> <<>> ]

\* this.config.retryableStatusCodes.includes(statusCode)
isRetryable(policy, statusCode) ==
  \E i \in 1..Len(policy.retryableStatusCodes) : policy.retryableStatusCodes[i] = statusCode

RECURSIVE MathPow(_, _)
MathPow(base, exponent) ==
  IF exponent = 0 THEN 1 ELSE base * MathPow(base, exponent - 1)

MathMin(a, b) == IF a <= b THEN a ELSE b

\* getDelay with the exponent attempt.
getDelayFromAttempt(policy, n) ==
  IF n <= 0 THEN 0
  ELSE MathMin(policy.initialDelayMs * MathPow(policy.backoffMultiplier, n),
               policy.maxDelayMs)

getDelay(policy, n) ==
  IF n <= 0 THEN 0
  ELSE MathMin(policy.initialDelayMs * MathPow(policy.backoffMultiplier, n - 1),
               policy.maxDelayMs)

\* The errors of errors.ts that HttpRuntimeGateway throws, by name, code and
\* statusCode.
ValidationError == [name |-> "ValidationError", code |-> "VALIDATION_ERROR"]
NetworkError == [name |-> "NetworkError", code |-> "NETWORK_ERROR"]
TimeoutError == [name |-> "TimeoutError", code |-> "TIMEOUT_ERROR"]
ServerError(statusCode) ==
  [name |-> "ServerError", code |-> "SERVER_ERROR", statusCode |-> statusCode]
ClientError(statusCode) ==
  [name |-> "ClientError", code |-> "CLIENT_ERROR", statusCode |-> statusCode]

\* error instanceof ServerError
InstanceOfServerError(error) == error.name = "ServerError"
\* error instanceof TimeoutError
InstanceOfTimeoutError(error) == error.name = "TimeoutError"

\* A shouldRetry that answers yes to every error.
shouldRetryAlways(policy, error) == TRUE

\* The shouldRetry that HttpRuntimeGateway.post gives to RetryPolicy.execute.
shouldRetry(policy, error) ==
  IF InstanceOfServerError(error) THEN isRetryable(policy, error.statusCode)
  ELSE IF InstanceOfTimeoutError(error) THEN TRUE
  ELSE FALSE

\* handleErrorResponse: the error thrown for a response that is not ok.
handleErrorResponse(status) ==
  IF status >= 500 THEN ServerError(status)
  ELSE IF status = 400 THEN ValidationError
  ELSE ClientError(status)

\* What fetch does: it resolves with a response, of some status and with a
\* body that is JSON text or not, it is aborted by the timeout, or it
\* rejects for any other reason.
Response(status, json) == [kind |-> "response", status |-> status, json |-> json]
Aborted == [kind |-> "abort"]
Failed == [kind |-> "failure"]

\* response.ok
ResponseOk(response) == response.status >= 200 /\ response.status <= 299

\* What fetch and response.json() throw: the AbortError of the timeout, the
\* TypeError of a failed fetch, the SyntaxError of a body that is not JSON.
AbortError == [name |-> "AbortError"]
FetchTypeError == [name |-> "TypeError"]
JsonSyntaxError == [name |-> "SyntaxError"]

\* error instanceof KeonError
InstanceOfKeonError(error) ==
  error.name \in {"ValidationError", "NetworkError", "TimeoutError", "ServerError", "ClientError"}

\* The try block of makeRequest, from the outcome of its fetch: the parsed
\* body, or what is thrown.
tryRequest(fetched) ==
  IF fetched.kind = "response"
    THEN IF ~ResponseOk(fetched) THEN Throw(handleErrorResponse(fetched.status))
         ELSE IF fetched.json THEN Ok([status |-> fetched.status])
         ELSE Throw(JsonSyntaxError)
  ELSE IF fetched.kind = "abort" THEN Throw(AbortError)
  ELSE Throw(FetchTypeError)

\* makeRequest with a catch block that wraps everything but an abort.
makeRequestWrapping(fetched) ==
  LET tried == tryRequest(fetched) IN
  IF tried.ok THEN tried
  ELSE IF tried.err.name = "AbortError" THEN Throw(TimeoutError)
  ELSE Throw(NetworkError)

\* makeRequest: the try block, and the catch block for what it throws.
makeRequest(fetched) ==
  LET tried == tryRequest(fetched) IN
  IF tried.ok THEN tried
  ELSE IF InstanceOfKeonError(tried.err) THEN tried
  ELSE IF tried.err.name = "AbortError" THEN Throw(TimeoutError)
  ELSE Throw(NetworkError)

\* The largest maxAttempts of the policies that are neither default() nor none().
MaxConfiguredAttempts == 3

RetryPolicies ==
  {RetryPolicyDefault, RetryPolicyNone} \cup
  { [ maxAttempts |-> n,
      initialDelayMs |-> d,
      maxDelayMs |-> 150,
      backoffMultiplier |-> 2,
      retryableStatusCodes |-> <<500>> ] :
    n \in 0..MaxConfiguredAttempts, d \in {0, 100} }

\* What an fn given to RetryPolicy.execute does: it resolves with a value
\* or rejects with an error.
FnCompletions ==
  {Ok("first"), Ok("second"), Throw([name |-> "Error", message |-> "one"]),
   Throw([name |-> "Error", message |-> "two"])}

Statuses == {200, 204, 400, 404, 408, 429, 500, 501, 502, 503, 504}

FetchOutcomes ==
  {Response(s, TRUE) : s \in Statuses} \cup {Response(200, FALSE), Aborted, Failed}

(***************************************************************************)
(* State of a RetryPolicy.execute call: the policy (config), what is       *)
(* retried (target: an fn of the caller, or makeRequest for '/decide' or   *)
(* '/execute'), where the call stands (at: "idle", about to call fn,       *)
(* asleep, or "done"), the loop variable attempt, lastError, the           *)
(* completions of the invocations of fn so far (calls; for                 *)
(* HttpRuntimeGateway each is one HTTP request), the calls of shouldRetry  *)
(* (asked), the delays slept, how the call settled (result), and what the  *)
(* fetch of each HTTP request did (requests).                              *)
(***************************************************************************)
VARIABLES config, target, at, attempt, lastError, calls, asked, slept, result,
          requests

retryVars ==
  <<config, target, at, attempt, lastError, calls, asked, slept, result, requests>>

RetryInit ==
  /\ config = RetryPolicyDefault
  /\ target = "none"
  /\ at = "idle"
  /\ attempt = 0
  /\ lastError = Undefined
  /\ calls = <<>>
  /\ asked = <<>>
  /\ slept = <<>>
  /\ result = Ok(Undefined)
  /\ requests = <<>>

(***************************************************************************)
(* extractTenantId (packages/contracts/src/types.ts) and the direct calls  *)
(* of the helpers getDelay and extractTenantId.                            *)
(***************************************************************************)
\* Index of the first c in text, 0 when there is none.
IndexOf(text, c) ==
  IF \E i \in 1..Len(text) : text[i] = c
    THEN CHOOSE i \in 1..Len(text) : text[i] = c /\ \A j \in 1..(i - 1) : text[j] # c
    ELSE 0

\* `Cannot extract tenant ID from CorrelationId: ${correlationId}`
CannotExtractPrefix ==
  <<67, 97, 110, 110, 111, 116, 32, 101, 120, 116, 114, 97, 99, 116, 32,
    116, 101, 110, 97, 110, 116, 32, 73, 68, 32, 102, 114, 111, 109, 32,
    67, 111, 114, 114, 101, 108, 97, 116, 105, 111, 110, 73, 100, 58, 32>>

\* /^t:([^|:]+)\|c:/ in the place of /^t:([^|]+)\|c:/
extractTenantIdUpToColon(correlationId) ==
  LET bar == IndexOf(correlationId, 124)
      tenant == SubSeq(correlationId, 3, bar - 1)
  IN IF /\ bar >= 4
        /\ Len(correlationId) >= bar + 2
        /\ SubSeq(correlationId, 1, 2) = <<116, 58>>
        /\ SubSeq(correlationId, bar + 1, bar + 2) = <<99, 58>>
        /\ \A i \in 1..Len(tenant) : tenant[i] # 58
       THEN Ok(tenant)
       ELSE Throw([name |-> "Error", message |-> CannotExtractPrefix \o correlationId])

\* correlationId.match(/^t:([^|]+)\|c:/): 't:', one or more characters
\* other than '|', which therefore end at the first '|', then '|c:'.
extractTenantId(correlationId) ==
  LET bar == IndexOf(correlationId, 124)
  IN IF /\ bar >= 4
        /\ Len(correlationId) >= bar + 2
        /\ SubSeq(correlationId, 1, 2) = <<116, 58>>
        /\ SubSeq(correlationId, bar + 1, bar + 2) = <<99, 58>>
       THEN Ok(SubSeq(correlationId, 3, bar - 1))
       ELSE Throw([name |-> "Error", message |-> CannotExtractPrefix \o correlationId])

\* The longest tenant id built from TenantAlphabet.
MaxTenantLen == 2
\* The largest attempt given to getDelay.
MaxDelayAttempt == 5

\* 't', 'c', ':', 'A', '-'
TenantAlphabet == {116, 99, 58, 65, 45}

\* 'org-456:env-prod:tenant-789'
ComplexTenantText ==
  <<111, 114, 103, 45, 52, 53, 54, 58, 101, 110, 118, 45, 112, 114, 111,
    100, 58, 116, 101, 110, 97, 110, 116, 45, 55, 56, 57>>

TenantTexts ==
  (SeqsUpTo(TenantAlphabet, MaxTenantLen) \ {<<>>}) \cup {TenantText, ComplexTenantText}

\* What follows '|c:': a UUID, nothing, and texts that hold '|' and '|c:'.
UuidTexts ==
  {SubSeq(ValidCorrelationText, 16, 51), <<>>, <<124>>, <<120, 124, 99, 58, 121>>}

\* 't:' + tenant + '|c:' + uuid
CorrelationText(tenant, uuid) == <<116, 58>> \o tenant \o <<124, 99, 58>> \o uuid

\* Texts that differ from 't:' + tenant + '|c:' + uuid in one place: the
\* case of a letter, a missing or added character, an empty tenant, a
\* tenant with '|' inside, a cut after the tenant.
NearMisses(tenant, uuid) ==
  { <<84, 58>> \o tenant \o <<124, 99, 58>> \o uuid,
    <<116, 58>> \o tenant \o <<124, 67, 58>> \o uuid,
    <<116>> \o tenant \o <<124, 99, 58>> \o uuid,
    <<32, 116, 58>> \o tenant \o <<124, 99, 58>> \o uuid,
    <<116, 58>> \o tenant \o <<99, 58>> \o uuid,
    <<116, 58>> \o tenant \o <<124, 99>> \o uuid,
    <<116, 58, 124, 99, 58>> \o uuid,
    <<116, 58>> \o tenant \o <<124>> \o tenant \o <<124, 99, 58>> \o uuid,
    <<116, 58>> \o tenant,
    tenant,
    <<>> }

CorrelationTexts ==
  UNION { {CorrelationText(tenant, uuid)} \cup NearMisses(tenant, uuid) :
          tenant \in TenantTexts, uuid \in UuidTexts }

DelayPolicies ==
  RetryPolicies \cup
  { [ maxAttempts |-> 3,
      initialDelayMs |-> initial,
      maxDelayMs |-> max,
      backoffMultiplier |-> multiplier,
      retryableStatusCodes |-> <<>> ] :
    initial \in {0, 50, 100}, max \in {0, 150, 1000}, multiplier \in {1, 2, 3} }

(***************************************************************************)
(* State of a direct call of a helper: the helper called, what it was      *)
(* given (input) and how it completed (output).                            *)
(***************************************************************************)
VARIABLES helper, input, output

helperVars == <<helper, input, output>>

HelperInit ==
  /\ helper = "none"
  /\ input = Undefined
  /\ output = Ok(Undefined)

(***************************************************************************)
(* AIAdapter (packages/sdk/tests/receipt-requirement.test.ts, from line    *)
(* 273): chat, complete and embed.                                         *)
(***************************************************************************)
AdapterMethods == {"chat", "complete", "embed"}

\* 'ai.chat', 'ai.complete', 'ai.embed'
AiChatText ==
  <<97, 105, 46, 99, 104, 97, 116>>
AiCompleteText ==
  <<97, 105, 46, 99, 111, 109, 112, 108, 101, 116, 101>>
AiEmbedText ==
  <<97, 105, 46, 101, 109, 98, 101, 100>>
ActionOf(name) ==
  IF name = "chat" THEN String(AiChatText)
  ELSE IF name = "complete" THEN String(AiCompleteText)
  ELSE String(AiEmbedText)

\* 'AI call denied by policy', 'AI completion denied by policy',
\* 'AI embedding denied by policy'
ChatDeniedText ==
  <<65, 73, 32, 99, 97, 108, 108, 32, 100, 101, 110, 105, 101, 100, 32, 98,
    121, 32, 112, 111, 108, 105, 99, 121>>
CompletionDeniedText ==
  <<65, 73, 32, 99, 111, 109, 112, 108, 101, 116, 105, 111, 110, 32, 100,
    101, 110, 105, 101, 100, 32, 98, 121, 32, 112, 111, 108, 105, 99, 121>>
EmbeddingDeniedText ==
  <<65, 73, 32, 101, 109, 98, 101, 100, 100, 105, 110, 103, 32, 100, 101,
    110, 105, 101, 100, 32, 98, 121, 32, 112, 111, 108, 105, 99, 121>>
DeniedMessage(name) ==
  IF name = "chat" THEN ChatDeniedText
  ELSE IF name = "complete" THEN CompletionDeniedText
  ELSE EmbeddingDeniedText

AIGovernanceError(message, granted) ==
  [name |-> "AIGovernanceError", message |-> message, receipt |-> granted]

\* `Provider ${provider.name} does not support completions` / embeddings
UnsupportedError(name) == [name |-> "Error", message |-> <<name, "unsupported">>]

\* receipt.decision read from null or undefined
TypeError == [name |-> "TypeError"]

\* The response returned on a denial that is not thrown: nothing in it but
\* the model of the request and the receipt.
EmptyResponse(name, request, granted) ==
  [ id |-> String(<<>>),
    model |-> request.model,
    content |-> <<>>,
    receipt |-> granted,
    execution |-> Object(<<>>) ]

\* {...response, receipt, execution}
GovernedResponse(answer, granted, execution) ==
  [ id |-> answer.id,
    model |-> answer.model,
    content |-> answer.content,
    receipt |-> granted,
    execution |-> execution ]

\* The parameters of this.client.decide in chat, complete and embed.
AdapterDecideParams(name, settings, request) ==
  [ correlationId |-> Undefined,
    tenantId |-> settings.tenantId,
    actorId |-> settings.actorId,
    action |-> ActionOf(name),
    resourceType |-> String(<<97, 105, 46, 109, 111, 100, 101, 108>>),
    resourceId |-> request.model,
    context |-> [provider |-> settings.provider.name, model |-> request.model] ]

\* The parameters of this.client.execute in chat, complete and embed.
AdapterExecuteParams(name, request, granted) ==
  [ receipt |-> granted,
    action |-> ActionOf(name),
    parameters |-> [model |-> request.model],
    correlationId |-> Undefined ]

\* A destructuring default of false in the place of true.
ThrowOnDenialUnlessUnset(settings) ==
  IF settings.throwOnDenial = Undefined THEN FALSE ELSE settings.throwOnDenial.b

\* const { throwOnDenial = true } = this.config
ThrowOnDenial(settings) ==
  IF settings.throwOnDenial = Undefined THEN TRUE ELSE settings.throwOnDenial.b

\* 'gpt-4', 'openai', 'user-456', 'resp-1'
AdapterRequests == {[model |-> String(<<103, 112, 116, 45, 52>>)]}

AdapterSettings ==
  [ tenantId : {String(TenantText), String(<<>>)},
    actorId : {String(<<117, 115, 101, 114, 45, 52, 53, 54>>)},
    provider : [ name : {String(<<111, 112, 101, 110, 97, 105>>)},
                 complete : BOOLEAN,
                 embed : BOOLEAN ],
    onDenied : BOOLEAN,
    throwOnDenial : {Undefined, Boolean(TRUE), Boolean(FALSE)} ]

ProviderFailure == [name |-> "Error", message |-> <<"provider", "failure">>]

\* What the provider's method settles with.
ProviderAnswers ==
  { Throw(ProviderFailure),
    Ok([ id |-> String(<<114, 101, 115, 112, 45, 49>>),
         model |-> String(<<103, 112, 116, 45, 52>>),
         content |-> <<String(<<104, 105>>)>> ]) }

(***************************************************************************)
(* State of an adapter call: the method called with the settings of the    *)
(* adapter and the request (adapter), where the call stands (stage:        *)
(* "idle", awaiting client.decide, awaiting client.execute, awaiting the   *)
(* provider, or "done"), the calls made so far on the client, onDenied and *)
(* the provider (trail), the receipt client.decide returned (granted), the *)
(* result of client.execute (execution), and how the call settled          *)
(* (governed).                                                             *)
(***************************************************************************)
VARIABLES adapter, stage, trail, granted, execution, governed

adapterVars == <<adapter, stage, trail, granted, execution, governed>>

AdapterInit ==
  /\ adapter = Null
  /\ stage = "idle"
  /\ trail = <<>>
  /\ granted = Undefined
  /\ execution = Undefined
  /\ governed = Ok(Undefined)

(***************************************************************************)
(* State: the entry point last called (op), its argument (arg), how it     *)
(* completed (ret), and where the argument came from (src): "fresh" from   *)
(* the caller, or derived from the argument src.of and completion src.out  *)
(* of the call before.  Every call is synchronous and runs to completion.  *)
(***************************************************************************)
VARIABLES op, arg, ret, src

codecVars == <<op, arg, ret, src>>

vars == <<codecVars, clientVars, retryVars, helperVars, adapterVars>>

\* Where the argument of a call comes from.  A caller's own argument is
\* recorded as it was passed; an argument derived from an earlier call is
\* recorded with that call: its entry point, its argument and its result.
Fresh(a) == [how |-> "fresh", by |-> "none", of |-> a, out |-> Ok(<<>>)]
Derived(how) == [how |-> how, by |-> op, of |-> arg, out |-> ret]

Idle == op = "none"
\* canonicalize has just returned the bytes of a caller's value.
Canonicalized == op = "canonicalize" /\ src.how = "fresh" /\ ret.ok

\* A caller's call has returned; the caller still holds its argument.
Held == op # "none" /\ src.how = "fresh"
\* Since that call, another caller's call on another argument has returned.
Interposed == src.how = "between"
\* The first call made again, on the argument as it stands now.
Again == [src EXCEPT !.how = "after"]

\* The arguments of the other caller.
OtherValue == Object(<< <<Keya, String(KeyDecomposed)>>, <<KeyA, Array(<<Two, One>>)>> >>)
OtherBytes == <<123, 34, 98, 34, 58, 49, 44, 34, 97, 34, 58, 50, 125>>

CodecInit ==
  /\ op = "none"
  /\ arg = Null
  /\ ret = Ok(<<>>)
  /\ src = Fresh(Null)

Init == CodecInit /\ ClientInit /\ RetryInit /\ HelperInit /\ AdapterInit

\* A call that leaves the members of its argument in sorted order, as a sort
\* of the caller's object in place would.
CallSortingArgument(name, a, r, s) ==
  /\ op' = name
  /\ arg' = IF name \in {"canonicalize", "canonicalizeToString"} /\ a.t = "object"
              THEN LET keys == SortKeys(ObjectKeys(a))
                   IN Object([i \in 1..Len(keys) |-> <<keys[i], Get(a, keys[i])>>])
              ELSE a
  /\ ret' = r
  /\ src' = s
  /\ UNCHANGED <<clientVars, retryVars, helperVars, adapterVars>>

Call(name, a, r, s) ==
  /\ op' = name
  /\ arg' = a
  /\ ret' = r
  /\ src' = s
  /\ UNCHANGED <<clientVars, retryVars, helperVars, adapterVars>>

\* canonicalize(value): of a caller's value, or of the value just
\* canonicalized with its members inserted in another order or with its
\* strings in another normalization form.
Canonicalize ==
  \/ /\ Idle
     /\ \E value \in Inputs : Call("canonicalize", value, canonicalize(value), Fresh(value))
  \/ /\ Canonicalized
     /\ \E value \in Reorderings(arg) \ {arg} :
          Call("canonicalize", value, canonicalize(value), Derived("permuted"))
  \/ /\ Canonicalized
     /\ \E value \in Renormalizations(arg) \ {arg} :
          Call("canonicalize", value, canonicalize(value), Derived("renormalized"))
  \/ /\ Held
     /\ Call("canonicalize", OtherValue, canonicalize(OtherValue), Derived("between"))
  \/ /\ Interposed /\ src.by = "canonicalize"
     /\ Call("canonicalize", src.of, canonicalize(src.of), Again)

\* canonicalizeToString(value): of a caller's value, or again after another
\* caller's call.
CanonicalizeToString ==
  \/ /\ Idle
     /\ \E value \in Inputs :
          Call("canonicalizeToString", value, canonicalizeToString(value), Fresh(value))
  \/ /\ Interposed /\ src.by = "canonicalizeToString"
     /\ Call("canonicalizeToString", src.of, canonicalizeToString(src.of), Again)

\* canonicalizeBytes(jsonBytes): of a caller's bytes, or of the bytes
\* canonicalize has just returned.
CanonicalizeBytes ==
  \/ /\ Idle
     /\ \E jsonBytes \in ByteVectors :
          Call("canonicalizeBytes", jsonBytes, canonicalizeBytes(jsonBytes), Fresh(jsonBytes))
  \/ /\ Canonicalized
     /\ Call("canonicalizeBytes", ret.val, canonicalizeBytes(ret.val), Derived("output"))
  \/ /\ Interposed /\ src.by = "canonicalizeBytes"
     /\ Call("canonicalizeBytes", src.of, canonicalizeBytes(src.of), Again)

\* validateIntegrity(jsonBytes): of a caller's bytes, of the bytes
\* canonicalize has just returned, or of those bytes serialized again with
\* extra whitespace or another key order.
ValidateIntegrity ==
  \/ /\ Idle
     /\ \E jsonBytes \in ByteVectors :
          Call("validateIntegrity", jsonBytes, validateIntegrity(jsonBytes), Fresh(jsonBytes))
  \/ /\ Canonicalized
     /\ Call("validateIntegrity", ret.val, validateIntegrity(ret.val), Derived("output"))
  \/ /\ Canonicalized
     /\ \E jsonBytes \in WhitespaceVariants(ret.val) :
          Call("validateIntegrity", jsonBytes, validateIntegrity(jsonBytes),
               Derived("whitespace"))
  \/ /\ Canonicalized
     /\ arg.t = "object"
     /\ \E jsonBytes \in KeyOrderVariants(arg, ret.val) :
          Call("validateIntegrity", jsonBytes, validateIntegrity(jsonBytes),
               Derived("keyorder"))
  \/ /\ Held
     /\ Call("validateIntegrity", OtherBytes, validateIntegrity(OtherBytes), Derived("between"))
  \/ /\ Interposed /\ src.by = "validateIntegrity"
     /\ Call("validateIntegrity", src.of, validateIntegrity(src.of), Again)

Next ==
  \/ Canonicalize
  \/ CanonicalizeToString
  \/ CanonicalizeBytes
  \/ ValidateIntegrity

Spec == Init /\ [][Next]_vars

(***************************************************************************)
(* KeonClient: one call of decide, execute or decideAndExecute against a   *)
(* gateway.  A method runs to its await of the gateway; the gateway's      *)
(* settling runs the rest of it.                                           *)
(***************************************************************************)
Settle(completion) ==
  /\ pc' = "done"
  /\ outcome' = completion

\* this.gateway.decide(request) or this.gateway.execute(request), awaited.
Invoke(fn, request) ==
  /\ sent' = Append(sent, [fn |-> fn, request |-> request])
  /\ pc' = fn
  /\ outcome' = outcome

\* decide from its first line to its await.
BeginDecide(p, uuid) ==
  LET request == decide(p, uuid) IN
  IF request.ok THEN Invoke("decide", request.val)
  ELSE Settle(request) /\ sent' = sent

\* execute from its first line to its await.
BeginExecute(p) ==
  LET request == execute(p) IN
  IF request.ok THEN Invoke("execute", request.val)
  ELSE Settle(request) /\ sent' = sent

\* client.decide(params)
Decide ==
  /\ pc = "idle"
  /\ \E p \in DecideParams, uuid \in Uuids :
       /\ method' = "decide"
       /\ params' = p
       /\ BeginDecide(p, uuid)
  /\ UNCHANGED <<receipt, codecVars, retryVars, helperVars, adapterVars>>

\* client.execute(params)
Execute ==
  /\ pc = "idle"
  /\ \E p \in ExecuteParams :
       /\ method' = "execute"
       /\ params' = p
       /\ BeginExecute(p)
  /\ UNCHANGED <<receipt, codecVars, retryVars, helperVars, adapterVars>>

\* client.decideAndExecute(params), to the await in this.decide
DecideAndExecute ==
  /\ pc = "idle"
  /\ \E p \in DecideAndExecuteParams, uuid \in Uuids :
       /\ method' = "decideAndExecute"
       /\ params' = p
       /\ BeginDecide(p, uuid)
  /\ UNCHANGED <<receipt, codecVars, retryVars, helperVars, adapterVars>>

\* gateway.decide settles.  decide returns response.data or rejects with the
\* gateway's error; decideAndExecute goes on with this.execute.
GatewayDecide ==
  /\ pc = "decide"
  /\ \E response \in DecideResponses :
       IF ~response.ok
         THEN Settle(response) /\ UNCHANGED <<sent, receipt>>
       ELSE /\ receipt' = response.val.data
            /\ IF method = "decide"
                 THEN Settle(Ok(response.val.data)) /\ sent' = sent
               ELSE BeginExecute([receipt |-> response.val.data,
                                  action |-> params.action,
                                  parameters |-> params.parameters,
                                  correlationId |-> params.correlationId])
  /\ UNCHANGED <<method, params, codecVars, retryVars, helperVars, adapterVars>>

\* gateway.execute settles: execute returns response.data or rejects.
GatewayExecute ==
  /\ pc = "execute"
  /\ \E response \in ExecuteResponses :
       Settle(IF response.ok THEN Ok(response.val.data) ELSE response)
  /\ UNCHANGED <<sent, receipt, method, params, codecVars, retryVars, helperVars, adapterVars>>

ClientNext ==
  \/ Decide
  \/ Execute
  \/ DecideAndExecute
  \/ GatewayDecide
  \/ GatewayExecute

ClientSpec == Init /\ [][ClientNext]_vars

(***************************************************************************)
(* RetryPolicy.execute, step by step.                                      *)
(***************************************************************************)
\* The test of the for loop with attempt = n: fn is called next, or the
\* loop is left and lastError is thrown.
LoopFrom(policy, n, error) ==
  /\ attempt' = n
  /\ IF n <= policy.maxAttempts
       THEN at' = "call" /\ result' = result
       ELSE at' = "done" /\ result' = Throw(error)

\* The catch block asking shouldRetry on every attempt, the last one too.
CaughtUnbounded(error, retry) ==
  /\ lastError' = error
  /\ asked' = Append(asked, [error |-> error, attempt |-> attempt, answer |-> retry])
  /\ IF ~retry
       THEN /\ at' = "done"
            /\ result' = Throw(error)
            /\ UNCHANGED <<attempt, slept>>
       ELSE /\ at' = "call"
            /\ attempt' = attempt + 1
            /\ UNCHANGED <<result, slept>>

\* The catch block throwing, on the last attempt, the error of the first.
CaughtThrowingFirst(error, retry) ==
  /\ lastError' = error
  /\ IF attempt = config.maxAttempts
       THEN /\ at' = "done"
            /\ result' = Throw(IF calls = <<>> THEN error ELSE calls[1].err)
            /\ UNCHANGED <<attempt, asked, slept>>
     ELSE
       /\ asked' = Append(asked, [error |-> error, attempt |-> attempt, answer |-> retry])
       /\ IF ~retry
            THEN /\ at' = "done"
                 /\ result' = Throw(error)
                 /\ UNCHANGED <<attempt, slept>>
          ELSE LET delay == getDelay(config, attempt) IN
            IF delay > 0
              THEN /\ at' = "sleep"
                   /\ slept' = Append(slept, delay)
                   /\ UNCHANGED <<attempt, result>>
              ELSE /\ slept' = slept
                   /\ LoopFrom(config, attempt + 1, error)

\* The catch block sleeping before it looks at the answer of shouldRetry.
CaughtSleepingFirst(error, retry) ==
  /\ lastError' = error
  /\ IF attempt = config.maxAttempts
       THEN /\ at' = "done"
            /\ result' = Throw(error)
            /\ UNCHANGED <<attempt, asked, slept>>
     ELSE
       /\ asked' = Append(asked, [error |-> error, attempt |-> attempt, answer |-> retry])
       /\ slept' = Append(slept, getDelay(config, attempt))
       /\ IF ~retry
            THEN /\ at' = "done"
                 /\ result' = Throw(error)
                 /\ attempt' = attempt
            ELSE /\ at' = "sleep"
                 /\ UNCHANGED <<attempt, result>>

\* The catch block: error is what fn threw, retry is what shouldRetry
\* answers when it is asked.
Caught(error, retry) ==
  /\ lastError' = error
  /\ IF attempt = config.maxAttempts
       THEN /\ at' = "done"
            /\ result' = Throw(error)
            /\ UNCHANGED <<attempt, asked, slept>>
     ELSE
       /\ asked' = Append(asked, [error |-> error, attempt |-> attempt, answer |-> retry])
       /\ IF ~retry
            THEN /\ at' = "done"
                 /\ result' = Throw(error)
                 /\ UNCHANGED <<attempt, slept>>
          ELSE LET delay == getDelay(config, attempt) IN
            IF delay > 0
              THEN /\ at' = "sleep"
                   /\ slept' = Append(slept, delay)
                   /\ UNCHANGED <<attempt, result>>
              ELSE /\ slept' = slept
                   /\ LoopFrom(config, attempt + 1, error)

\* fn has settled with completion.
Returned(completion, retry) ==
  /\ calls' = Append(calls, completion)
  /\ IF completion.ok
       THEN /\ at' = "done"
            /\ result' = completion
            /\ UNCHANGED <<attempt, lastError, asked, slept>>
       ELSE Caught(completion.err, retry)
  /\ UNCHANGED <<config, target, codecVars, clientVars, helperVars, adapterVars>>

Enter(policy, what) ==
  /\ config' = policy
  /\ target' = what
  /\ LoopFrom(policy, 1, lastError)
  /\ UNCHANGED <<lastError, calls, asked, slept, requests, codecVars, clientVars,
                  helperVars, adapterVars>>

\* retryPolicy.execute(fn, shouldRetry) with an fn and a shouldRetry of the
\* caller.
RetryPolicyExecute ==
  /\ at = "idle"
  /\ \E policy \in RetryPolicies : Enter(policy, "fn")

\* HttpRuntimeGateway.decide
HttpDecide ==
  /\ at = "idle"
  /\ \E policy \in RetryPolicies : Enter(policy, "/decide")

\* HttpRuntimeGateway.execute
HttpExecute ==
  /\ at = "idle"
  /\ \E policy \in RetryPolicies : Enter(policy, "/execute")

\* One invocation of the caller's fn, and the catch block when it throws.
InvokeFn ==
  /\ at = "call"
  /\ target = "fn"
  /\ \E completion \in FnCompletions, retry \in BOOLEAN : Returned(completion, retry)
  /\ requests' = requests

\* One makeRequest, which issues one fetch, and the catch block when it
\* throws.
MakeRequest ==
  /\ at = "call"
  /\ target \in {"/decide", "/execute"}
  /\ \E fetched \in FetchOutcomes :
       LET completion == makeRequest(fetched) IN
       /\ requests' = Append(requests, fetched)
       /\ Returned(completion,
                   IF completion.ok THEN FALSE ELSE shouldRetry(config, completion.err))

\* The sleep is over: the loop goes on with the next attempt.
Wake ==
  /\ at = "sleep"
  /\ LoopFrom(config, attempt + 1, lastError)
  /\ UNCHANGED <<config, target, lastError, calls, asked, slept, requests, codecVars,
                  clientVars, helperVars, adapterVars>>

RetryNext ==
  \/ RetryPolicyExecute
  \/ HttpDecide
  \/ HttpExecute
  \/ InvokeFn
  \/ MakeRequest
  \/ Wake

RetrySpec == Init /\ [][RetryNext]_vars

(***************************************************************************)
(* Direct calls of getDelay and extractTenantId.                           *)
(***************************************************************************)
\* policy.getDelay(n)
GetDelay ==
  /\ helper = "none"
  /\ \E policy \in DelayPolicies, n \in (0 - 2)..MaxDelayAttempt :
       /\ helper' = "getDelay"
       /\ input' = [policy |-> policy, attempt |-> n]
       /\ output' = Ok(getDelay(policy, n))
  /\ UNCHANGED <<codecVars, clientVars, retryVars, adapterVars>>

\* extractTenantId(text)
ExtractTenantId ==
  /\ helper = "none"
  /\ \E text \in CorrelationTexts :
       /\ helper' = "extractTenantId"
       /\ input' = text
       /\ output' = extractTenantId(text)
  /\ UNCHANGED <<codecVars, clientVars, retryVars, adapterVars>>

HelperNext ==
  \/ GetDelay
  \/ ExtractTenantId

HelperSpec == Init /\ [][HelperNext]_vars

(***************************************************************************)
(* AIAdapter.chat, complete and embed, step by step.                       *)
(***************************************************************************)
Finish(completion) ==
  /\ stage' = "done"
  /\ governed' = completion

Event(call, with) == [call |-> call, with |-> with]

\* Step 1: this.client.decide(...), up to its call of the gateway or its
\* rejection.
RequestDecision(name, settings, request, uuid) ==
  LET decideParams == AdapterDecideParams(name, settings, request)
      sending == decide(decideParams, uuid)
  IN /\ trail' = <<Event("client.decide", decideParams)>>
     /\ IF sending.ok
          THEN stage' = "decide" /\ governed' = governed
          ELSE Finish(sending)

\* Step 2: the denial.  onDenied?.(receipt), then the throw or the empty
\* response.
HandleDenial(receipt_) ==
  /\ trail' = IF adapter.settings.onDenied
                THEN Append(trail, Event("onDenied", receipt_))
                ELSE trail
  /\ Finish(IF ThrowOnDenial(adapter.settings)
              THEN Throw(AIGovernanceError(DeniedMessage(adapter.name), receipt_))
              ELSE Ok(EmptyResponse(adapter.name, adapter.request, receipt_)))

\* Step 3: this.client.execute(...), up to its call of the gateway or its
\* rejection.
RequestExecution(receipt_) ==
  LET executeParams == AdapterExecuteParams(adapter.name, adapter.request, receipt_)
      sending == execute(executeParams)
  IN /\ trail' = Append(trail, Event("client.execute", executeParams))
     /\ IF sending.ok
          THEN stage' = "execute" /\ governed' = governed
          ELSE Finish(sending)

\* provider.chat is required; provider.complete and provider.embed may be
\* missing.
Supports(provider, name) ==
  IF name = "chat" THEN TRUE
  ELSE IF name = "complete" THEN provider.complete
  ELSE provider.embed

Begin(name) ==
  /\ stage = "idle"
  /\ \E settings \in AdapterSettings, request \in AdapterRequests, uuid \in Uuids :
       /\ adapter' = [name |-> name, settings |-> settings, request |-> request]
       /\ IF ~Supports(settings.provider, name)
            THEN Finish(Throw(UnsupportedError(name))) /\ trail' = trail
            ELSE RequestDecision(name, settings, request, uuid)
  /\ UNCHANGED <<granted, execution, codecVars, clientVars, retryVars, helperVars>>

\* adapter.chat(request)
Chat ==
  /\ stage = "idle"
  /\ Begin("chat")

\* adapter.complete(request)
Complete ==
  /\ stage = "idle"
  /\ Begin("complete")

\* adapter.embed(request)
Embed ==
  /\ stage = "idle"
  /\ Begin("embed")

\* client.decide settles: with the rejection of the gateway, or with the
\* receipt the gateway answered.  Steps 2 and 3 follow.
ClientDecideSettles ==
  /\ stage = "decide"
  /\ \E answer \in DecideResponses :
       IF ~answer.ok
         THEN Finish(answer) /\ UNCHANGED <<trail, granted>>
       ELSE LET receipt_ == answer.val.data IN
         /\ granted' = receipt_
         /\ IF receipt_ \in {Null, Undefined}
              THEN Finish(Throw(TypeError)) /\ trail' = trail
            ELSE IF receipt_.decision = String(DenyText)
              THEN HandleDenial(receipt_)
            ELSE RequestExecution(receipt_)
  /\ UNCHANGED <<adapter, execution, codecVars, clientVars, retryVars, helperVars>>

\* client.execute settles: with the rejection of the gateway, or with the
\* execution result.  Step 4, the call of the provider, follows.
ClientExecuteSettles ==
  /\ stage = "execute"
  /\ \E answer \in ExecuteResponses :
       IF ~answer.ok
         THEN Finish(answer) /\ UNCHANGED <<trail, execution>>
       ELSE /\ execution' = answer.val.data
            /\ trail' = Append(trail, Event("provider", adapter.request))
            /\ stage' = "provider"
            /\ governed' = governed
  /\ UNCHANGED <<adapter, granted, codecVars, clientVars, retryVars, helperVars>>

\* The provider settles, and a failure of the provider is answered with
\* one more client.execute.
ProviderSettlesExecutingAgain ==
  /\ stage = "provider"
  /\ \E answer \in ProviderAnswers :
       IF answer.ok
         THEN Finish(Ok(GovernedResponse(answer.val, granted, execution))) /\ trail' = trail
       ELSE IF Len(trail) <= 3
         THEN RequestExecution(granted)
       ELSE Finish(answer) /\ trail' = trail
  /\ UNCHANGED <<adapter, granted, execution, codecVars, clientVars, retryVars, helperVars>>

\* The provider settles.  Step 5.
ProviderSettles ==
  /\ stage = "provider"
  /\ \E answer \in ProviderAnswers :
       Finish(IF answer.ok THEN Ok(GovernedResponse(answer.val, granted, execution))
              ELSE answer)
  /\ UNCHANGED <<adapter, trail, granted, execution, codecVars, clientVars, retryVars, helperVars>>

AdapterNext ==
  \/ Chat
  \/ Complete
  \/ Embed
  \/ ClientDecideSettles
  \/ ClientExecuteSettles
  \/ ProviderSettles

AdapterSpec == Init /\ [][AdapterNext]_vars

(***************************************************************************)
(* Properties.                                                             *)
(***************************************************************************)
TakesValue == op \in {"canonicalize", "canonicalizeToString"}
Emits == op \in {"canonicalize", "canonicalizeToString", "canonicalizeBytes"} /\ ret.ok
EmittedText == IF op = "canonicalizeToString" THEN ret.val ELSE TextDecode(ret.val)

RECURSIVE JsonValue(_)
\* v is one of the six cases of a JSON value, with finite numbers.
JsonValue(v) ==
  \/ v.t \in {"null", "boolean", "string"}
  \/ v.t = "number" /\ v.cls \in {"zero", "fin"}
  \/ v.t = "array" /\ \A i \in 1..Len(v.items) : JsonValue(v.items[i])
  \/ v.t = "object" /\ \A i \in 1..Len(v.members) : JsonValue(v.members[i][2])

RECURSIVE Contains(_, _)
\* Some value of the set S occurs in v: v itself, an element or a member
\* value at any depth.
Contains(v, S) ==
  \/ v \in S
  \/ v.t = "array" /\ \E i \in 1..Len(v.items) : Contains(v.items[i], S)
  \/ v.t = "object" /\ \E i \in 1..Len(v.members) : Contains(v.members[i][2], S)

RECURSIVE ObjectsIn(_)
\* The objects of a value read from a text, at every depth.
ObjectsIn(v) ==
  IF v.t = "array" THEN UNION {ObjectsIn(v.items[i]) : i \in 1..Len(v.items)}
  ELSE IF v.t = "object"
    THEN {v} \cup UNION {ObjectsIn(v.members[i][2]) : i \in 1..Len(v.members)}
  ELSE {}

\* a comes before b code unit by code unit, a proper prefix first.
OrdinalLess(a, b) ==
  \E k \in 1..(Len(a) + 1) :
    /\ k <= Len(b)
    /\ \A j \in 1..(k - 1) : a[j] = b[j]
    /\ (k = Len(a) + 1 \/ a[k] < b[k])

\* C1: canonicalizeBytes(canonicalize(v)) is byte for byte canonicalize(v),
\* for every valid JSON value v, objects with keys that differ only by
\* normalization form included.
C1_Idempotence ==
  (op = "canonicalizeBytes" /\ src.how = "output" /\ JsonValue(src.of))
    => (ret.ok /\ ret.val = arg)

\* C2: two mappings that hold the same key/value pairs, inserted in different
\* orders at any depth, canonicalize to the same bytes.
C2_KeyOrderInvariance ==
  (op = "canonicalize" /\ src.how = "permuted" /\ arg.t = "object" /\ JsonValue(arg))
    => ret = src.out

\* C3: in every emitted text that reads as JSON, in every object the members appear in ascending ordinal order
\* of the UTF-16 code units of their NFC keys: no member is followed by one
\* whose key sorts before its own.
C3_KeysAscend ==
  Emits =>
    Let(ReadValue(EmittedText, 1), LAMBDA read :
      read.ok =>
        \A o \in ObjectsIn(read.val) :
           \A i \in 1..(Len(o.members) - 1) :
             ~OrdinalLess(NFC(o.members[i + 1][1]), NFC(o.members[i][1])))

\* The keys a, A inserted in that order are emitted as A, a.
C3_Witness ==
  /\ op = "canonicalizeToString"
  /\ arg = Object(<< <<Keya, One>>, <<KeyA, Two>> >>)
  /\ ret = Ok(<<123, 34, 65, 34, 58, 50, 44, 34, 97, 34, 58, 49, 125>>)

\* C4: validateIntegrity(bytes) is true exactly when canonicalizeBytes(bytes)
\* completes and returns bytes itself; it is false for a canonical text
\* serialized again with extra whitespace or with another key order.
C4_IntegrityExact ==
  op = "validateIntegrity" =>
    /\ ret.ok
    /\ Let(canonicalizeBytes(arg), LAMBDA canonical :
         (ret.val = TRUE) <=> (canonical.ok /\ canonical.val = arg))
    /\ src.how \in {"whitespace", "keyorder"} => ret.val = FALSE

\* Members in another order, of the length of the canonical text, are refused.
C4_Witness ==
  /\ op = "validateIntegrity"
  /\ src.how = "keyorder"
  /\ Len(arg) = Len(src.out.val)
  /\ ret = Ok(FALSE)

\* C5: validateIntegrity returns a boolean for every byte sequence, and false
\* whenever parsing or canonicalization fails; it never throws.
C5_IntegrityNeverThrows ==
  op = "validateIntegrity" =>
    /\ ret.ok
    /\ ret.val \in BOOLEAN
    /\ ~canonicalizeBytes(arg).ok => ret.val = FALSE

\* 1e400 parses to Infinity, whose canonicalization throws: the answer is false.
C5_Witness ==
  /\ op = "validateIntegrity"
  /\ arg = <<49, 101, 52, 48, 48>>
  /\ canonicalizeBytes(arg).err = "NonFiniteNumber"
  /\ ret = Ok(FALSE)

NonFinite == {NaN, PosInfinity, NegInfinity}

\* C6: when NaN or an infinity occurs anywhere in the input, canonicalize and
\* canonicalizeToString fail and return no output.
C6_NonFiniteFails ==
  (TakesValue /\ Contains(arg, NonFinite)) => (~ret.ok /\ ret.val = <<>>)

Unsupported == {Function, Symbol, BigInt, Undefined}

\* C7: when a value outside the six JSON cases (a function, a symbol,
\* undefined, a bigint) occurs anywhere in the input, canonicalize and
\* canonicalizeToString fail with the unsupported-type error.
C7_UnsupportedFails ==
  (TakesValue /\ Contains(arg, Unsupported)) => (~ret.ok /\ ret.err = "UnsupportedType")

\* C8: the keys of every emitted object are pairwise distinct after NFC.
C8_DistinctKeys ==
  Emits =>
    Let(ReadValue(EmittedText, 1), LAMBDA read :
      read.ok =>
        \A o \in ObjectsIn(read.val) :
           \A i, j \in 1..Len(o.members) :
             i # j => NFC(o.members[i][1]) # NFC(o.members[j][1]))

LowerHex == <<48, 49, 50, 51, 52, 53, 54, 55, 56, 57, 97, 98, 99, 100, 101, 102>>

\* What C9 says a code point (held as its code units) is written as.
Rendering(char) ==
  IF Len(char) = 2 THEN char
  ELSE IF char[1] = 34 THEN <<92, 34>>
  ELSE IF char[1] = 92 THEN <<92, 92>>
  ELSE IF char[1] = 8 THEN <<92, 98>>
  ELSE IF char[1] = 12 THEN <<92, 102>>
  ELSE IF char[1] = 10 THEN <<92, 110>>
  ELSE IF char[1] = 13 THEN <<92, 114>>
  ELSE IF char[1] = 9 THEN <<92, 116>>
  ELSE IF char[1] < 32
    THEN <<92, 117, 48, 48, LowerHex[(char[1] \div 16) + 1], LowerHex[(char[1] % 16) + 1]>>
  ELSE char

\* C9: a string renders as a double quote, each code point of its NFC form
\* escaped as the table says or written literally, and a double quote.
C9_StringEscaping ==
  (op = "canonicalizeToString" /\ arg.t = "string") =>
    /\ ret.ok
    /\ LET chars == StringIterator(NFC(arg.s))
       IN ret.val = <<34>> \o Flatten([i \in 1..Len(chars) |-> Rendering(chars[i])]) \o <<34>>

\* U+001F followed by U+00E9 renders as "\u001f" and the literal letter.
C9_Witness ==
  /\ op = "canonicalizeToString"
  /\ arg = String(<<31, 233>>)
  /\ ret = Ok(<<34, 92, 117, 48, 48, 49, 102, 233, 34>>)

\* An optional minus and decimal digits: no decimal point, no exponent.
PlainInteger(text) ==
  LET digits == IF text # <<>> /\ text[1] = MINUS THEN Tail(text) ELSE text
  IN digits # <<>> /\ \A i \in 1..Len(digits) : IsDigit(digits[i])

\* A finite integral number of magnitude at most 2^53 - 1.
SafeIntegral(v) ==
  /\ v.t = "number"
  /\ \/ v.cls = "zero"
     \/ v.cls = "fin" /\ v.n >= Len(v.ds) /\ MagnitudeLeq(v, MaxSafeIntegerDigits)

\* C10: negative zero renders as 0, and a finite integral number within the
\* safe integer range renders as plain decimal digits with an optional minus,
\* whether the caller holds the number or it is read from a text such as 100.0.
C10_IntegerRendering ==
  /\ (TakesValue /\ arg = NegZero) => ret = Ok(<<ZERO>>)
  /\ (TakesValue /\ SafeIntegral(arg)) => (ret.ok /\ PlainInteger(EmittedText))
  /\ op = "canonicalizeBytes" =>
       Let(JSONParse(TextDecode(arg)), LAMBDA parsed :
         (parsed.ok /\ SafeIntegral(parsed.val)) => (ret.ok /\ PlainInteger(EmittedText)))

\* The text 100.0 is canonicalized to 100.
C10_Witness ==
  /\ op = "canonicalizeBytes"
  /\ arg = <<49, 48, 48, 46, 48>>
  /\ ret = Ok(<<49, 48, 48>>)

\* The value read at index i of an array: undefined where the array has no
\* property.
ElementAt(arr, i) == IF arr.items[i] = Hole THEN Undefined ELSE arr.items[i]

\* C11: an array renders as '[', the canonical forms of its elements in their
\* order joined with ',', and ']'; the i-th rendered element is the canonical
\* form of the i-th input element, and the call fails when an element has none.
C11_ArrayRendering ==
  (op = "canonicalizeToString" /\ arg.t = "array") =>
    LET forms == [i \in 1..Len(arg.items) |-> canonicalizeToString(ElementAt(arg, i))] IN
    IF \A i \in 1..Len(forms) : forms[i].ok
      THEN ret = Ok(<<91>> \o Join([i \in 1..Len(forms) |-> forms[i].val], <<44>>) \o <<93>>)
      ELSE ~ret.ok

\* C12: two inputs that differ only in the normalization form of their
\* string values, or of object keys where no two keys of the object share a
\* composed form, canonicalize to the same bytes.
C12_NormalizationInvariance ==
  (op = "canonicalize" /\ src.how = "renormalized") => ret = src.out

\* The key e U+0301 written as U+00E9 gives the same bytes.
C12_Witness ==
  /\ op = "canonicalize"
  /\ src.how = "renormalized"
  /\ src.of = Object(<< <<KeyDecomposed, One>> >>)
  /\ arg = Object(<< <<KeyComposed, One>> >>)
  /\ ret = Ok(<<123, 34, 195, 169, 34, 58, 49, 125>>)

Started == pc # "idle"
Rejected(name) == pc = "done" /\ ~outcome.ok /\ outcome.err.name = name
Invoked(fn) == \E i \in 1..Len(sent) : sent[i].fn = fn

\* A string that is there and not empty.
Present(value) == value.t = "string" /\ Len(value.s) > 0

\* part occurs in text.
Includes(text, part) ==
  \E i \in 0..(Len(text) - Len(part)) : SubSeq(text, i + 1, i + Len(part)) = part

\* The receipt is null or undefined, or its receiptId is missing or empty.
NoReceiptId(r) == r \in {Null, Undefined} \/ ~Present(r.receiptId)

Lower(c) == IF c >= 65 /\ c <= 90 THEN c + 32 ELSE c

\* text is t:<TenantId>|c:<uuidv7>, letters in either case: a tenant part of
\* one or more characters other than '|', and a version 7 UUID of variant
\* 8, 9, a or b.
CanonicalCorrelationText(text) ==
  \E n \in 1..(Len(text) - 41) :
    LET low == [i \in 1..Len(text) |-> Lower(text[i])]
        uuid == SubSeq(low, n + 6, Len(low))
    IN /\ Len(text) = n + 5 + 36
       /\ SubSeq(low, 1, 2) = <<116, 58>>
       /\ \A i \in 3..(n + 2) : text[i] # 124
       /\ SubSeq(low, n + 3, n + 5) = <<124, 99, 58>>
       /\ \A i \in 1..36 :
            IF i \in {9, 14, 19, 24} THEN uuid[i] = 45
            ELSE IF i = 15 THEN uuid[i] = 55
            ELSE IF i = 20 THEN uuid[i] \in {56, 57, 97, 98}
            ELSE uuid[i] \in (48..57) \cup (97..102)

CanonicalCorrelationId(value) == value.t = "string" /\ CanonicalCorrelationText(value.s)

\* C14: execute called with a receipt that is null or undefined, or whose
\* receiptId is missing or empty, rejects with MissingReceiptError, and the
\* gateway is not invoked.
C14_MissingReceipt ==
  (method = "execute" /\ Started /\ NoReceiptId(params.receipt)) =>
    /\ Rejected("MissingReceiptError")
    /\ sent = <<>>

\* An allow receipt whose receiptId is the empty string.
C14_Witness ==
  /\ method = "execute"
  /\ params.receipt \notin {Null, Undefined}
  /\ params.receipt.receiptId = String(<<>>)
  /\ params.receipt.decision = String(AllowText)
  /\ Rejected("MissingReceiptError")

\* What C15 says of a rejection: ExecutionDeniedError, the reason of the
\* receipt in the message, the appliedPolicies of the receipt in the
\* details, and no call of the gateway.
DeniedAsReceiptSays ==
  /\ Rejected("ExecutionDeniedError")
  /\ Includes(outcome.err.message, params.receipt.reason.s)
  /\ outcome.err.details = [appliedPolicies |-> params.receipt.appliedPolicies]
  /\ sent = <<>>

\* C15 as stated: execute called with a receipt whose decision is deny
\* rejects with ExecutionDeniedError carrying the reason and the
\* appliedPolicies of the receipt, and the gateway is not invoked.
C15_DeniedAsStated ==
  ( /\ method = "execute" /\ Started
    /\ params.receipt \notin {Null, Undefined}
    /\ params.receipt.decision = String(DenyText) ) => DeniedAsReceiptSays

\* C15, amended: the same for a receipt that has a non-empty receiptId.  A
\* deny receipt without receiptId is rejected with MissingReceiptError.
C15_Denied ==
  /\ ( /\ method = "execute" /\ Started
       /\ ~NoReceiptId(params.receipt)
       /\ params.receipt.decision = String(DenyText) ) => DeniedAsReceiptSays
  /\ ( /\ method = "execute" /\ Started
       /\ NoReceiptId(params.receipt) ) => ~Rejected("ExecutionDeniedError")

\* A deny receipt with receiptId 'dr-allow' and one applied policy.
C15_Witness ==
  /\ method = "execute"
  /\ ~NoReceiptId(params.receipt)
  /\ params.receipt.decision = String(DenyText)
  /\ params.receipt.appliedPolicies # <<>>
  /\ Rejected("ExecutionDeniedError")
  /\ outcome.err.message = ExecutionDeniedPrefix \o ReasonText

\* C16: in decideAndExecute, gateway.execute is invoked only after
\* gateway.decide has returned, and only when the receipt it returned has
\* the decision allow; when gateway.decide fails, gateway.execute is never
\* invoked.
C16_LawBeforeExecution ==
  method = "decideAndExecute" =>
    /\ Invoked("execute") =>
         /\ Len(sent) = 2 /\ sent[1].fn = "decide" /\ sent[2].fn = "execute"
         /\ receipt \notin {Null, Undefined}
         /\ receipt.decision = String(AllowText)
    /\ (pc = "done" /\ ~outcome.ok /\ outcome.err = GatewayFailure /\ Len(sent) = 1)
         => ~Invoked("execute")

\* C17, first part: every request handed to the gateway carries a
\* correlationId of the form t:<TenantId>|c:<uuidv7>.
RequestsCarryCanonicalId ==
  \A i \in 1..Len(sent) : CanonicalCorrelationId(sent[i].request.correlationId)

\* The correlationId in effect in execute: the caller's when there is one,
\* otherwise the receipt's.
EffectiveInExecute ==
  IF Present(params.correlationId) THEN params.correlationId
  ELSE params.receipt.correlationId

\* decide with a caller's correlationId that is not canonical rejects with
\* InvalidCorrelationIdError without a call of the gateway.
DecideRejectsInvalid ==
  ( /\ method \in {"decide", "decideAndExecute"} /\ Started
    /\ Present(params.correlationId)
    /\ ~CanonicalCorrelationId(params.correlationId) ) =>
      (Rejected("InvalidCorrelationIdError") /\ sent = <<>>)

\* C17 as stated: requests carry a canonical correlationId, and a call whose
\* correlationId in effect is not canonical rejects with
\* InvalidCorrelationIdError without a call of the gateway.
C17_CorrelationAsStated ==
  /\ RequestsCarryCanonicalId
  /\ DecideRejectsInvalid
  /\ ( /\ method = "execute" /\ Started
       /\ params.receipt \notin {Null, Undefined}
       /\ ~CanonicalCorrelationId(EffectiveInExecute) ) =>
         (Rejected("InvalidCorrelationIdError") /\ sent = <<>>)

\* C17, amended: in execute the correlationId is validated after the receipt:
\* the rejection is InvalidCorrelationIdError when the receipt has a
\* receiptId and its decision is not deny; in every case the gateway is not
\* called.
C17_Correlation ==
  /\ RequestsCarryCanonicalId
  /\ DecideRejectsInvalid
  /\ ( /\ method = "execute" /\ Started
       /\ params.receipt \notin {Null, Undefined}
       /\ ~CanonicalCorrelationId(EffectiveInExecute) ) =>
         /\ sent = <<>>
         /\ pc = "done" /\ ~outcome.ok
         /\ (~NoReceiptId(params.receipt) /\ params.receipt.decision # String(DenyText))
              => Rejected("InvalidCorrelationIdError")

\* execute with an allow receipt whose correlationId is 'invalid-format' and
\* no correlationId of the caller.
C17_Witness ==
  /\ method = "execute"
  /\ params.correlationId = Undefined
  /\ ~NoReceiptId(params.receipt)
  /\ params.receipt.decision = String(AllowText)
  /\ params.receipt.correlationId = String(InvalidFormatText)
  /\ Rejected("InvalidCorrelationIdError")
  /\ outcome.err.message = InvalidCorrelationIdPrefix \o InvalidFormatText
  /\ sent = <<>>

\* decide has handed the gateway a request whose correlationId is
\* t:<tenantId>|c:<uuid> for the tenantId of the call, and it is canonical.
GeneratedReachesGateway ==
  /\ Len(sent) >= 1
  /\ sent[1].fn = "decide"
  /\ LET id == sent[1].request.correlationId
         head == <<116, 58>> \o params.tenantId.s \o <<124, 99, 58>>
     IN /\ CanonicalCorrelationId(id)
        /\ Len(id.s) = Len(head) + 36
        /\ SubSeq(id.s, 1, Len(head)) = head

\* C18 as stated: decide called without a correlationId generates a
\* canonical one for any tenantId, and the request reaches the gateway.
C18_GeneratedAsStated ==
  (method = "decide" /\ Started /\ ~Present(params.correlationId))
    => GeneratedReachesGateway

\* C18, amended: for a tenantId that is not empty and holds no '|'; for any
\* other tenantId decide rejects with InvalidCorrelationIdError and the
\* gateway is not called.
C18_Generated ==
  (method = "decide" /\ Started /\ ~Present(params.correlationId)) =>
    IF Len(params.tenantId.s) > 0 /\ \A i \in 1..Len(params.tenantId.s) : params.tenantId.s[i] # 124
      THEN GeneratedReachesGateway
      ELSE Rejected("InvalidCorrelationIdError") /\ sent = <<>>

\* Generated at time 0 from random bytes 0: the group after the version is
\* 8000.
C18_WitnessText ==
  <<116, 58, 116, 101, 110, 97, 110, 116, 45, 49, 50, 51, 124, 99, 58, 48,
    48, 48, 48, 48, 48, 48, 48, 45, 48, 48, 48, 48, 45, 55, 48, 48, 48, 45,
    56, 48, 48, 48, 45, 48, 48, 48, 48, 48, 48, 48, 48, 48, 48, 48, 48>>
C18_Witness ==
  /\ method = "decide"
  /\ params.correlationId = Undefined
  /\ Len(sent) = 1
  /\ sent[1].request.correlationId = String(C18_WitnessText)

\* C19: decide sends a caller's valid correlationId as given; execute sends
\* the receiptId of the receipt as decisionReceiptId, and the caller's
\* correlationId when there is one, otherwise the receipt's.
C19_IdentifiersForwarded ==
  /\ ( /\ method = "decide" /\ Started
       /\ Present(params.correlationId)
       /\ CanonicalCorrelationId(params.correlationId) ) =>
         /\ Len(sent) = 1
         /\ sent[1].fn = "decide"
         /\ sent[1].request.correlationId = params.correlationId
  /\ (method = "execute" /\ Invoked("execute")) =>
         /\ Len(sent) = 1
         /\ sent[1].request.decisionReceiptId = params.receipt.receiptId
         /\ sent[1].request.correlationId = EffectiveInExecute

\* The caller's correlationId is sent, not the receipt's.
C19_Witness ==
  /\ method = "execute"
  /\ Len(sent) = 1
  /\ params.correlationId = String(ValidCorrelationText)
  /\ params.receipt.correlationId = String(InvalidFormatText)
  /\ sent[1].request.correlationId = String(ValidCorrelationText)
  /\ sent[1].request.decisionReceiptId = params.receipt.receiptId

(***************************************************************************)
(* Properties of RetryPolicy and HttpRuntimeGateway.                       *)
(***************************************************************************)
\* C20: one RetryPolicy.execute call invokes fn at most maxAttempts times,
\* whatever shouldRetry answers and however fn fails; under
\* RetryPolicy.default() at most 3 times; one HttpRuntimeGateway decide or
\* execute call issues at most maxAttempts HTTP requests.
C20_BoundedRetries ==
  /\ Len(calls) <= config.maxAttempts
  /\ config = RetryPolicyDefault => Len(calls) <= 3
  /\ at = "call" => Len(calls) < config.maxAttempts

\* Under the default policy three HTTP requests of one decide have failed
\* with status 503, after two retries, and the call has rejected.
C20_Witness ==
  /\ target = "/decide"
  /\ config = RetryPolicyDefault
  /\ at = "done"
  /\ calls = <<Throw(ServerError(503)), Throw(ServerError(503)), Throw(ServerError(503))>>
  /\ slept = <<100, 200>>
  /\ result = Throw(ServerError(503))

\* Statuses that RetryPolicy.default() lists as retryable.
DefaultRetryableStatuses == {408, 429, 500, 502, 503, 504}

\* The last request of an HttpRuntimeGateway call failed with an HTTP status.
LastFailedWithStatus(statuses) ==
  /\ target \in {"/decide", "/execute"}
  /\ Len(calls) >= 1
  /\ LET last == calls[Len(calls)] IN
       /\ ~last.ok
       /\ last.err.name \in {"ServerError", "ClientError"}
       /\ last.err.statusCode \in statuses

\* C21: under the default policy a request through HttpRuntimeGateway that
\* failed with status 408, 429, 500, 502, 503 or 504 is retried while
\* attempts remain: the call does not settle on such a failure before its
\* third request.
C21_RetryableStatusesRetried ==
  ( /\ config = RetryPolicyDefault
    /\ LastFailedWithStatus(DefaultRetryableStatuses)
    /\ Len(calls) < config.maxAttempts ) => at # "done"

\* C22: getDelay(attempt) is 0 for attempt <= 0 and
\* min(initialDelayMs * backoffMultiplier^(attempt-1), maxDelayMs) for
\* attempt >= 1, so it never exceeds maxDelayMs; under the default policy
\* the delays of attempts 1, 2, 3 are 100, 200, 400.
C22_BackoffDelay ==
  helper = "getDelay" =>
    LET policy == input.policy
        n == input.attempt
        delay == output.val
        grown == policy.initialDelayMs * policy.backoffMultiplier ^ (n - 1)
    IN /\ output.ok
       /\ n <= 0 => delay = 0
       /\ n >= 1 => /\ delay <= policy.maxDelayMs
                    /\ delay <= grown
                    /\ delay \in {grown, policy.maxDelayMs}
       /\ policy = RetryPolicyDefault =>
            /\ n = 1 => delay = 100
            /\ n = 2 => delay = 200
            /\ n = 3 => delay = 400

\* The third attempt under the default policy: 400, below the cap of 1000.
C22_Witness ==
  /\ helper = "getDelay"
  /\ input = [policy |-> RetryPolicyDefault, attempt |-> 3]
  /\ output = Ok(400)

\* text starts with 't:', n characters, '|c:'.
TenantEndsAt(text, n) ==
  /\ n >= 1
  /\ Len(text) >= n + 5
  /\ SubSeq(text, 1, 2) = <<116, 58>>
  /\ SubSeq(text, n + 3, n + 5) = <<124, 99, 58>>

\* C24: for every tenant id that is not empty and holds no '|', and every
\* uuid, extractTenantId('t:' + tenant + '|c:' + uuid) returns tenant
\* (tenants with ':' too); extractTenantId throws for a text that does not
\* start with 't:', one or more characters, '|c:'.
C24_TenantRoundTrip ==
  helper = "extractTenantId" =>
    /\ \A n \in 1..Len(input) :
         (TenantEndsAt(input, n) /\ \A i \in 3..(n + 2) : input[i] # 124)
           => output = Ok(SubSeq(input, 3, n + 2))
    /\ (~\E n \in 1..Len(input) : TenantEndsAt(input, n)) => ~output.ok

\* The tenant 'org-456:env-prod:tenant-789' is returned whole.
C24_Witness ==
  /\ helper = "extractTenantId"
  /\ input = CorrelationText(ComplexTenantText, SubSeq(ValidCorrelationText, 16, 51))
  /\ output = Ok(ComplexTenantText)

(***************************************************************************)
(* Properties of AIAdapter.                                                *)
(***************************************************************************)
Called(call) == \E i \in 1..Len(trail) : trail[i].call = call
CallsOf(call) == {i \in 1..Len(trail) : trail[i].call = call}

\* client.decide has returned a receipt whose decision is d.
DecidedWith(d) == granted \notin {Null, Undefined} /\ granted.decision = String(d)

\* C23: in chat, complete and embed the provider is invoked only after
\* client.decide returned a receipt with the decision allow and
\* client.execute for that receipt completed successfully; on a deny
\* decision, or when decide or execute fails, the provider is not invoked.
C23_GovernedCall ==
  /\ Called("provider") =>
       /\ DecidedWith(AllowText)
       /\ Len(trail) = 3
       /\ trail[1].call = "client.decide"
       /\ trail[2].call = "client.execute"
       /\ trail[2].with.receipt = granted
       /\ trail[3].call = "provider"
       /\ execution # Undefined
  /\ DecidedWith(DenyText) => ~Called("provider")
  /\ (stage = "done" /\ ~governed.ok /\ execution = Undefined) => ~Called("provider")

Colliding(obj) ==
  \E i, j \in 1..Len(obj.members) :
    /\ i # j
    /\ obj.members[i][1] # obj.members[j][1]
    /\ NFC(obj.members[i][1]) = NFC(obj.members[j][1])

\* The member of obj that comes first, in the order of enumeration, among
\* those whose key has the NFC form key.
FirstWithForm(obj, key) ==
  obj.members[CHOOSE i \in 1..Len(obj.members) :
                /\ NFC(obj.members[i][1]) = key
                /\ \A j \in 1..(i - 1) : NFC(obj.members[j][1]) # key]

\* What is read back from the rendering of the value v.
AsEmitted(v) ==
  Let(canonicalizeValue(v), LAMBDA r : ReadValue(r.val, 1).val)

\* C25: when two distinct keys of an object have the same NFC form, the
\* value emitted for that form is the value of the key that comes first in
\* the enumeration of the object; the value of the later key is not
\* emitted.
C25_FirstCollidingKeyWins ==
  (TakesValue /\ arg.t = "object" /\ Colliding(arg) /\ ret.ok) =>
    Let(ReadValue(EmittedText, 1), LAMBDA read :
      /\ read.ok
      /\ read.val.t = "object"
      /\ \A i \in 1..Len(read.val.members) :
           read.val.members[i][2] = AsEmitted(FirstWithForm(arg, read.val.members[i][1])[2]))

\* {"é": 1, "é": 2} has been rendered: every member emitted holds 1.
C25_Witness ==
  /\ op = "canonicalizeToString"
  /\ arg = Object(<< <<KeyDecomposed, One>>, <<KeyComposed, Two>> >>)
  /\ ret.ok
  /\ Let(ReadValue(EmittedText, 1), LAMBDA read :
       /\ read.ok
       /\ Len(read.val.members) >= 1
       /\ \A i \in 1..Len(read.val.members) : read.val.members[i][2] = AsEmitted(One))

OverHttp == target \in {"/decide", "/execute"}

\* The failure is one that C26 says is retried: a ServerError whose status
\* code the policy lists, or a TimeoutError.
RetriedKind(completion) ==
  /\ ~completion.ok
  /\ \/ /\ completion.err.name = "ServerError"
        /\ \E k \in DOMAIN config.retryableStatusCodes :
             config.retryableStatusCodes[k] = completion.err.statusCode
     \/ completion.err.name = "TimeoutError"

C27_FirstSuccessOrLastError ==
  /\ \A i \in 1..Len(calls) :
       calls[i].ok => /\ i = Len(calls)
                      /\ at = "done"
                      /\ result = calls[i]
  /\ ( /\ config.maxAttempts >= 1
       /\ Len(calls) = config.maxAttempts
       /\ \A i \in 1..Len(calls) : ~calls[i].ok ) =>
         /\ at = "done"
         /\ result = calls[Len(calls)]

\* Three failures under the default policy, the last with another error than
\* the first: the rejection is the last error.
C27_Witness ==
  /\ target = "fn"
  /\ config = RetryPolicyDefault
  /\ Len(calls) = 3
  /\ \A i \in 1..3 : ~calls[i].ok
  /\ calls[3] # calls[1]
  /\ at = "done"
  /\ result = calls[3]

\* C28: when fn fails on an attempt that is not the last and shouldRetry
\* answers false, RetryPolicy.execute rejects at once with that error,
\* without a sleep and without another invocation of fn; shouldRetry is not
\* asked on the last attempt.
C28_NoRetryWhenRefused ==
  \A j \in 1..Len(asked) :
    /\ asked[j].attempt >= 1
    /\ asked[j].attempt < config.maxAttempts
    /\ asked[j].attempt <= Len(calls)
    /\ calls[asked[j].attempt] = Throw(asked[j].error)
    /\ ~asked[j].answer =>
         /\ j = Len(asked)
         /\ at = "done"
         /\ result = Throw(asked[j].error)
         /\ Len(calls) = asked[j].attempt
         /\ Len(slept) <= j - 1

\* The second failure under the default policy is refused: one sleep, two
\* invocations, and the rejection is the second error.
C28_Witness ==
  /\ target = "fn"
  /\ config = RetryPolicyDefault
  /\ Len(calls) = 2
  /\ Len(asked) = 2
  /\ asked[1].answer
  /\ ~asked[2].answer
  /\ slept = <<100>>
  /\ at = "done"
  /\ result = calls[2]
  /\ calls[2] # calls[1]

\* C29: HttpRuntimeGateway gives every failed request one kind of error: a
\* response that is not ok with status >= 500 a ServerError with that
\* status, status 400 a ValidationError, any other status a ClientError
\* with that status, an aborted request a TimeoutError, any other failure a
\* NetworkError; a KeonError thrown while the response is handled is
\* thrown on as it is.
C29_ErrorKinds ==
  OverHttp =>
    \A i \in 1..Len(requests) :
      LET fetched == requests[i]
          completion == calls[i]
      IN IF fetched.kind = "response" /\ fetched.status \in 200..299 /\ fetched.json
           THEN completion.ok
         ELSE
           /\ ~completion.ok
           /\ completion.err.name \in
                {"ServerError", "ValidationError", "ClientError", "TimeoutError", "NetworkError"}
           /\ completion.err.name = "ServerError" <=>
                (fetched.kind = "response" /\ fetched.status >= 500)
           /\ completion.err.name = "ValidationError" <=>
                (fetched.kind = "response" /\ fetched.status = 400)
           /\ completion.err.name = "ClientError" <=>
                (fetched.kind = "response" /\ fetched.status \notin 200..299
                   /\ fetched.status < 500 /\ fetched.status # 400)
           /\ completion.err.name = "TimeoutError" <=> fetched.kind = "abort"
           /\ completion.err.name = "NetworkError" <=>
                (fetched.kind = "failure" \/ (fetched.kind = "response" /\ fetched.status \in 200..299))
           /\ completion.err.name \in {"ServerError", "ClientError"} =>
                completion.err.statusCode = fetched.status

\* An abort, a 503 and a 404 have been classified in one call.
C29_Witness ==
  /\ OverHttp
  /\ Len(requests) = 3
  /\ requests[1] = Aborted
  /\ calls[1] = Throw(TimeoutError)
  /\ requests[2] = Response(503, TRUE)
  /\ calls[2] = Throw(ServerError(503))
  /\ requests[3] = Response(404, TRUE)
  /\ calls[3] = Throw(ClientError(404))

\* C31: KeonClient.execute hands a request to gateway.execute only for a
\* receipt whose decision is allow; for a receipt with any other decision
\* gateway.execute is not invoked.
C31_OnlyAllowForwarded ==
  (method = "execute" /\ Invoked("execute")) =>
    /\ params.receipt \notin {Null, Undefined}
    /\ params.receipt.decision = String(AllowText)

\* C32: in decideAndExecute the request handed to gateway.execute carries
\* the correlationId of the request handed to gateway.decide before it,
\* whether the caller gave one or it was generated, and whatever
\* correlationId the gateway put in the receipt.
C32_SameCorrelationId ==
  (method = "decideAndExecute" /\ Invoked("execute")) =>
    \A i \in 1..Len(sent) :
      sent[i].request.correlationId = sent[1].request.correlationId

\* C33: RetryPolicy.execute resolves with a value an invocation of fn
\* returned or rejects with an error an invocation of fn threw, for every
\* policy, maxAttempts <= 0 included: it settles with nothing fn did not
\* produce, and it invokes fn at least once.
C33_SettlesWithWhatFnProduced ==
  at = "done" =>
    /\ Len(calls) >= 1
    /\ \E i \in 1..Len(calls) : result = calls[i]

\* C34: KeonClient.execute applies its checks in one order and reports the
\* first that fails: a missing receipt or receiptId (MissingReceiptError)
\* before a deny decision (ExecutionDeniedError) before the form of the
\* correlationId (InvalidCorrelationIdError).  A deny receipt with an
\* invalid correlationId gives ExecutionDeniedError, and a receipt without
\* receiptId gives MissingReceiptError even when its decision is deny.
C34_CheckOrder ==
  (method = "execute" /\ Started) =>
    IF NoReceiptId(params.receipt)
      THEN Rejected("MissingReceiptError") /\ sent = <<>>
    ELSE IF params.receipt.decision = String(DenyText)
      THEN Rejected("ExecutionDeniedError") /\ sent = <<>>
    ELSE IF ~CanonicalCorrelationId(EffectiveInExecute)
      THEN Rejected("InvalidCorrelationIdError") /\ sent = <<>>
    ELSE /\ Invoked("execute")
         /\ ~Rejected("MissingReceiptError")
         /\ ~Rejected("ExecutionDeniedError")
         /\ ~Rejected("InvalidCorrelationIdError")

\* A deny receipt with a receiptId, whose correlationId is 'invalid-format',
\* with no correlationId of the caller: ExecutionDeniedError.
C34_Witness ==
  /\ method = "execute"
  /\ ~NoReceiptId(params.receipt)
  /\ params.receipt.decision = String(DenyText)
  /\ params.receipt.correlationId = String(InvalidFormatText)
  /\ params.correlationId = Undefined
  /\ Rejected("ExecutionDeniedError")
  /\ sent = <<>>

\* C35: in chat, complete and embed client.execute is issued once, before
\* the call of the provider, and is neither retried nor compensated: when
\* the provider fails after an allow decision the adapter rejects with the
\* error of the provider, and the execution has been recorded through
\* client.execute already.
C35_ExecutedOnceBeforeProvider ==
  /\ Cardinality(CallsOf("client.execute")) <= 1
  /\ Cardinality(CallsOf("provider")) <= 1
  /\ Called("provider") =>
       /\ Cardinality(CallsOf("client.execute")) = 1
       /\ \A i \in CallsOf("client.execute"), j \in CallsOf("provider") : i < j
       /\ trail[Len(trail)].call = "provider"
       /\ execution # Undefined
       /\ stage \in {"provider", "done"}
       /\ stage = "done" =>
            \/ governed = Throw(ProviderFailure)
            \/ /\ governed.ok
               /\ governed.val.execution = execution

\* chat after an allow decision: client.decide, client.execute and the
\* provider have been called once each, the provider has failed, and the
\* adapter has rejected with its error.
C35_Witness ==
  /\ stage = "done"
  /\ adapter.name = "chat"
  /\ DecidedWith(AllowText)
  /\ Len(trail) = 3
  /\ trail[2].call = "client.execute"
  /\ trail[3].call = "provider"
  /\ execution # Undefined
  /\ governed = Throw(ProviderFailure)

====
